---- MODULE Spec2Model ----
(***************************************************************************)
(* Model of kawaii-voice-changer's core: AudioProcessor (analysis,         *)
(* parameters, single-slot processed-audio cache, two locks) and           *)
(* AudioPlayer (looping playback callback, position lock).                 *)
(*                                                                         *)
(* Ratios are modelled in tenths (1.0 is 10, the clamp range [0.5, 2.0] is *)
(* [5, 20]).  Every method is split at its lock acquisitions and at its    *)
(* reads of unlocked shared fields, one action per segment, so that two    *)
(* threads interleave as the Python threads can.                           *)
(***************************************************************************)
EXTENDS Integers, Sequences, FiniteSets, TLC

VARIABLES
    \* ---- AudioProcessor ----
    audio_data,       \* id of the decoded file held in self.audio_data, 0 = None
    original_f0,      \* id of the file whose F0 track is stored, 0 = None
    original_sp,      \* same for the spectral envelope
    original_ap,      \* same for the aperiodicity
    f0_ratio,         \* in tenths
    formant_ratios,   \* [FormantNames -> tenths]
    formant_link,
    bypass_mode,
    processed,        \* self._processed_audio (a buffer record, see NoneBuf)
    cache_valid,      \* self._cache_valid
    param_lock,       \* holder of self._param_lock, "free" or a thread
    cache_lock,       \* holder of self._cache_lock
    \* ---- AudioPlayer ----
    is_playing,
    loop_enabled,
    loop_start,       \* samples
    loop_end,         \* samples, 0 = end of file
    loop_crossfade_ms,
    volume,           \* in tenths
    play_position,    \* samples
    position_lock,    \* holder of self._position_lock
    stream,           \* self.stream: "none", "active", "stopped" or "aborted"
    outdata,          \* the block the last callback handed to the device
    \* ---- threads ----
    pc,               \* [Threads -> label], "idle" = not inside any call
    arg,              \* [Threads -> record], the running call and its locals
    ret,              \* [Threads -> value], what the last finished call returned
    \* ---- history (not program state) ----
    loaded,           \* the file of the last load_audio that returned True, 0 = none
    just_linked,      \* the last parameter setter that ran was set_formant_link(True)
    recomputes,       \* runs of _process_audio stored since the last invalidation
    returned,         \* buffers handed out by get_processed_audio since then
    \* ---- AudioRecorder ----
    recorder_state,   \* self.state: "idle", "recording" or "paused"
    recorder_stream,  \* self._stream: "none", "active" or "unstarted"
    recording_queue,  \* self._recording_queue, a sequence of blocks
    recording_data,   \* self._recording_data, a sequence of blocks
    recorder_ret,     \* what the last recorder call returned
    delivered,        \* history: blocks the input stream has handed over
    captured,         \* history: the blocks handed over while RECORDING
    \* ---- SettingsManager ----
    slots,            \* self.slots, [0..MAX_SLOTS-1 -> slot record]
    current_slot_index,
    settings_ret,     \* what the last SettingsManager call was and returned
    \* ---- PresetManager ----
    user_presets,     \* self._user_presets, a function from names to presets
    preset_files,     \* the *.json files of preset_dir, file name -> contents
    presets_ret,      \* what the last PresetManager call was and returned
    \* ---- Config ----
    recent_files,     \* self.recent_files, a sequence of paths
    config_ret        \* what the last Config call was

engineVars == <<audio_data, original_f0, original_sp, original_ap, f0_ratio,
                formant_ratios, formant_link, bypass_mode, processed,
                cache_valid, param_lock, cache_lock>>
playerVars == <<is_playing, loop_enabled, loop_start, loop_end,
                loop_crossfade_ms, volume, play_position, position_lock,
                stream, outdata>>
recorderVars == <<recorder_state, recorder_stream, recording_queue,
                  recording_data, recorder_ret, delivered, captured>>
settingsVars == <<slots, current_slot_index, settings_ret>>
presetVars == <<user_presets, preset_files, presets_ret>>
configVars == <<recent_files, config_ret>>
appVars == <<recorderVars, settingsVars, presetVars, configVars>>
audioVars == <<engineVars, playerVars, pc, arg, ret, loaded, just_linked,
               recomputes, returned>>
vars == <<engineVars, playerVars, pc, arg, ret, loaded, just_linked,
          recomputes, returned, appVars>>

----------------------------------------------------------------------------
(* Bounds of the model *)

NumFiles == 2          \* decodable, analysable files 1..NumFiles
BaseLen == 3           \* samples in file 1; file i has BaseLen + 2*(i-1)
MaxRecomputes == 3     \* the history counter saturates here

(* Program constants *)

RatioMin == 5          \* np.clip(ratio, 0.5, 2.0)
RatioMax == 20
RatioOne == 10         \* the defaults 1.0

Threads == {"ctl", "rt"}
FormantNames == {"f1", "f2", "f3"}

BadFile == NumFiles + 1     \* sf.read raises on it
EmptyFile == NumFiles + 2   \* decodes to a signal the analysis rejects
Files == 1..NumFiles

FileLen(i) == IF i \in Files THEN BaseLen + 2 * (i - 1) ELSE 0

\* float64 samples of a decoded file; sample k of file i is 10*i + k
FileSamples(i) == [k \in 1..FileLen(i) |-> 10 * i + k]

\* astype(np.float32): the low bit of the (scaled) float64 mantissa is dropped
AsFloat32(x) == 2 * (x \div 2)

\* a clip that forgets the upper bound
ClipRatioLowOnly(r) == IF r < RatioMin THEN RatioMin ELSE r

\* np.clip(ratio, 0.5, 2.0)
ClipRatio(r) == IF r < RatioMin THEN RatioMin ELSE IF r > RatioMax THEN RatioMax ELSE r

----------------------------------------------------------------------------
(* Buffers: what _process_audio can return *)

\* what a call returns is a record with a kind: a buffer or one of these
None == [kind |-> "None"]
True == [kind |-> "True"]
False == [kind |-> "False"]
Raised == [kind |-> "raised"]                   \* an exception left the call
CallbackRaised == [kind |-> "callback_raised"]  \* it left the fill callback

\* self._processed_audio = None
NoneBuf == [kind |-> "none", n |-> 0]

\* a buffer of one sample where an empty one is due
OneSampleBuf == [kind |-> "empty", n |-> 1]

\* np.array([], dtype=np.float32)
EmptyBuf == [kind |-> "empty", n |-> 0]

\* self.audio_data.astype(np.float32)
BypassBuf(a) == [kind |-> "bypass", n |-> FileLen(a),
                 samples |-> [k \in 1..FileLen(a) |-> AsFloat32(FileSamples(a)[k])]]

\* pw.dio gives one frame per FrameLen samples plus one; pw.synthesize gives
\* FrameLen samples per frame, so the output is a little longer than the input
FrameLen == 2
SynthLen(f) == (FileLen(f) \div FrameLen + 1) * FrameLen

\* _shift_formants / _shift_formants_independent: which remapping is applied.
\* Both return the envelope untouched when every ratio involved is 1.0.
ShiftOf(link, fr) ==
    IF link
    THEN IF fr["f1"] = RatioOne THEN <<"same">> ELSE <<"linked", fr["f1"]>>
    ELSE IF \A f \in FormantNames : fr[f] = RatioOne
         THEN <<"same">>
         ELSE <<"bands", fr["f1"], fr["f2"], fr["f3"]>>

\* pw.synthesize(original_f0 * f0_ratio, shifted sp, original_ap, sample_rate)
SynthBuf(f0, sp, ap, ratio, shift) ==
    [kind |-> "synth", n |-> SynthLen(f0), f0 |-> f0, sp |-> sp, ap |-> ap,
     f0_ratio |-> ratio, shift |-> shift]

Params == [f0_ratio |-> f0_ratio, formant_ratios |-> formant_ratios,
           formant_link |-> formant_link, bypass_mode |-> bypass_mode]

\* the stored parameters and the validity flag as a setter found them
Pre == [pre |-> Params, prevalid |-> cache_valid]

NoArg == [op |-> "none"]
Idle(t) == pc[t] = "idle"
Quiet == \A t \in Threads : Idle(t)

----------------------------------------------------------------------------
(* Calls: a thread outside any call enters a method *)

Enter(t, label, a) ==
    /\ pc[t] = "idle"
    /\ pc' = [pc EXCEPT ![t] = label]
    /\ arg' = [arg EXCEPT ![t] = a]
    /\ ret' = [ret EXCEPT ![t] = None]
    /\ outdata' = <<>>
    /\ UNCHANGED <<engineVars, is_playing, loop_enabled, loop_start, loop_end,
                   loop_crossfade_ms, volume, play_position, position_lock,
                   stream, loaded, just_linked, recomputes, returned>>
    /\ UNCHANGED appVars

CallSetF0Ratio(t, r) == Enter(t, "set_f0_ratio", [op |-> "set_f0_ratio", ratio |-> r] @@ Pre)

CallSetFormantRatio(t, f, r) ==
    Enter(t, "set_formant_ratio", [op |-> "set_formant_ratio", formant |-> f, ratio |-> r,
              after_link |-> just_linked] @@ Pre)

CallSetFormantLink(t, b) ==
    Enter(t, "set_formant_link", [op |-> "set_formant_link", linked |-> b] @@ Pre)

CallSetBypassMode(t, b) ==
    Enter(t, "set_bypass_mode", [op |-> "set_bypass_mode", enabled |-> b] @@ Pre)

CallSetParameters(t, p) ==
    Enter(t, "set_parameters", [op |-> "set_parameters", params |-> p] @@ Pre)

CallGetProcessedAudio(t) ==
    Enter(t, "get_processed_audio", [op |-> "get_processed_audio"])

\* the audio, its analysis and the cache as a load_audio call found them
Loaded == [audio_data |-> audio_data, original_f0 |-> original_f0,
           original_sp |-> original_sp, original_ap |-> original_ap,
           processed |-> processed, cache_valid |-> cache_valid]

CallLoadAudio(t, f) ==
    Enter(t, "load_audio", [op |-> "load_audio", file |-> f, before |-> Loaded])

SetterOps == {"set_f0_ratio", "set_formant_ratio", "set_formant_link",
              "set_bypass_mode", "set_parameters"}

\* a call returns v: the thread is outside any call again
Return(t, v) ==
    /\ pc' = [pc EXCEPT ![t] = "idle"]
    /\ arg' = [arg EXCEPT ![t] = NoArg]
    /\ ret' = [ret EXCEPT ![t] = v]

Goto(t, label) ==
    /\ pc' = [pc EXCEPT ![t] = label]
    /\ UNCHANGED <<arg, ret>>

----------------------------------------------------------------------------
(* Parameter setters.  Each takes _param_lock, mutates, and (on the paths   *)
(* that invalidate) goes on to _invalidate_cache with _param_lock held.    *)

SetF0Ratio(t) ==
    /\ pc[t] = "set_f0_ratio"
    /\ UNCHANGED playerVars
    /\ just_linked' = FALSE
    /\ UNCHANGED loaded
    /\ param_lock = "free"
    /\ IF f0_ratio # arg[t].ratio
       THEN /\ f0_ratio' = ClipRatio(arg[t].ratio)
            /\ param_lock' = t
            /\ Goto(t, "invalidate")
       ELSE /\ UNCHANGED <<f0_ratio, param_lock>>
            /\ Return(t, None)
    /\ UNCHANGED <<audio_data, original_f0, original_sp, original_ap,
                   formant_ratios, formant_link, bypass_mode, processed,
                   cache_valid, cache_lock, recomputes, returned>>
    /\ UNCHANGED appVars

\* a store that ignores link mode
LinkedStoreNamedOnly(fr, f, r, link) == [fr EXCEPT ![f] = r]

\* lines 129-134: store the named ratio, then in link mode store it in all
LinkedStore(fr, f, r, link) ==
    IF link THEN [g \in FormantNames |-> r] ELSE [fr EXCEPT ![f] = r]

SetFormantRatio(t) ==
    /\ pc[t] = "set_formant_ratio"
    /\ UNCHANGED playerVars
    /\ just_linked' = FALSE
    /\ UNCHANGED loaded
    /\ param_lock = "free"
    /\ LET f == arg[t].formant
           new_ratio == ClipRatio(arg[t].ratio)
       IN IF f \in FormantNames /\ formant_ratios[f] # new_ratio
          THEN /\ formant_ratios' = LinkedStore(formant_ratios, f, new_ratio, formant_link)
               /\ param_lock' = t
               /\ Goto(t, "invalidate")
          ELSE /\ UNCHANGED <<formant_ratios, param_lock>>
               /\ Return(t, None)
    /\ UNCHANGED <<audio_data, original_f0, original_sp, original_ap, f0_ratio,
                   formant_link, bypass_mode, processed, cache_valid,
                   cache_lock, recomputes, returned>>
    /\ UNCHANGED appVars

\* a unification that takes the F2 value
UnifyToF2(fr) == [g \in FormantNames |-> fr["f2"]]

\* lines 148-150: unify all formants to the F1 value
Unify(fr) == [g \in FormantNames |-> fr["f1"]]

SetFormantLink(t) ==
    /\ pc[t] = "set_formant_link"
    /\ UNCHANGED playerVars
    /\ just_linked' = arg[t].linked
    /\ UNCHANGED loaded
    /\ param_lock = "free"
    /\ formant_link' = arg[t].linked
    /\ IF arg[t].linked
       THEN /\ formant_ratios' = Unify(formant_ratios)
            /\ param_lock' = t
            /\ Goto(t, "invalidate")
       ELSE /\ UNCHANGED <<formant_ratios, param_lock>>
            /\ Return(t, None)
    /\ UNCHANGED <<audio_data, original_f0, original_sp, original_ap, f0_ratio,
                   bypass_mode, processed, cache_valid, cache_lock,
                   recomputes, returned>>
    /\ UNCHANGED appVars

SetBypassMode(t) ==
    /\ pc[t] = "set_bypass_mode"
    /\ UNCHANGED playerVars
    /\ just_linked' = FALSE
    /\ UNCHANGED loaded
    /\ param_lock = "free"
    /\ bypass_mode' = arg[t].enabled
    /\ param_lock' = t
    /\ Goto(t, "invalidate")
    /\ UNCHANGED <<audio_data, original_f0, original_sp, original_ap, f0_ratio,
                   formant_ratios, formant_link, processed, cache_valid,
                   cache_lock, recomputes, returned>>
    /\ UNCHANGED appVars

\* a store that resets the formants the dict does not name
StoreRatiosOrReset(fr, given) ==
    [g \in FormantNames |-> IF g \in DOMAIN given THEN ClipRatio(given[g]) ELSE RatioOne]

\* lines 415-418: every known formant named in the dict gets its clipped value
StoreRatios(fr, given) ==
    [g \in FormantNames |-> IF g \in DOMAIN given THEN ClipRatio(given[g]) ELSE fr[g]]

\* A params dict is a record; a key of the dict is a field of the record.
SetParameters(t) ==
    /\ pc[t] = "set_parameters"
    /\ UNCHANGED playerVars
    /\ just_linked' = FALSE
    /\ UNCHANGED loaded
    /\ param_lock = "free"
    /\ LET p == arg[t].params
           has(k) == k \in DOMAIN p
       IN /\ f0_ratio' = IF has("f0_ratio") THEN ClipRatio(p.f0_ratio) ELSE f0_ratio
          /\ formant_ratios' = IF has("formant_ratios")
                               THEN StoreRatios(formant_ratios, p.formant_ratios)
                               ELSE formant_ratios
          /\ formant_link' = IF has("formant_link") THEN p.formant_link ELSE formant_link
    /\ param_lock' = t
    /\ Goto(t, "invalidate")
    /\ UNCHANGED <<audio_data, original_f0, original_sp, original_ap,
                   bypass_mode, processed, cache_valid, cache_lock,
                   recomputes, returned>>
    /\ UNCHANGED appVars

\* lines 398-403: the dict get_parameters returns
get_parameters ==
    [f0_ratio |-> f0_ratio, formant_ratios |-> formant_ratios,
     formant_link |-> formant_link]

\* _invalidate_cache, then the caller's return: the setters leave their
\* `with self._param_lock` block, load_audio returns True
InvalidateCache(t) ==
    /\ pc[t] = "invalidate"
    /\ UNCHANGED playerVars
    /\ UNCHANGED just_linked
    /\ loaded' = IF arg[t].op = "load_audio" THEN arg[t].file ELSE loaded
    /\ cache_lock = "free"
    /\ cache_valid' = FALSE
    /\ param_lock' = IF param_lock = t THEN "free" ELSE param_lock
    /\ recomputes' = 0
    /\ returned' = {}
    /\ Return(t, IF arg[t].op = "load_audio" THEN True ELSE None)
    /\ UNCHANGED <<audio_data, original_f0, original_sp, original_ap, f0_ratio,
                   formant_ratios, formant_link, bypass_mode, processed,
                   cache_lock>>
    /\ UNCHANGED appVars

----------------------------------------------------------------------------
(* get_processed_audio and _process_audio *)

\* what runs after get_processed_audio has returned inside the running call
AfterGet(op) ==
    CASE op = "callback" -> "callback_fill"
      [] op = "seek" -> "seek_store"
      [] op = "set_loop_region" -> "set_loop_region_store"
      [] op = "get_loop_region" -> "get_loop_region_return"
      [] OTHER -> "idle"

\* get_processed_audio returns buf to the code that called it
Deliver(t, buf) ==
    /\ returned' = returned \cup {buf}
    /\ IF AfterGet(arg[t].op) = "idle"
       THEN Return(t, buf)
       ELSE /\ pc' = [pc EXCEPT ![t] = AfterGet(arg[t].op)]
            /\ arg' = [arg EXCEPT ![t] = [audio |-> buf] @@ @]
            /\ UNCHANGED ret

\* a store that forgets to mark the cache valid
StoreAndDeliverNotValid(t, buf) ==
    /\ processed' = buf
    /\ cache_valid' = cache_valid
    /\ cache_lock' = "free"
    /\ recomputes' = IF recomputes < MaxRecomputes THEN recomputes + 1 ELSE recomputes
    /\ Deliver(t, buf)

\* lines 378-385: store the result, mark the cache valid, leave the lock
StoreAndDeliver(t, buf) ==
    /\ processed' = buf
    /\ cache_valid' = TRUE
    /\ cache_lock' = "free"
    /\ recomputes' = IF recomputes < MaxRecomputes THEN recomputes + 1 ELSE recomputes
    /\ Deliver(t, buf)

\* lines 376-377 and, on a valid cache, 381-385
GetProcessedAudio(t) ==
    /\ pc[t] = "get_processed_audio"
    /\ UNCHANGED playerVars
    /\ UNCHANGED <<loaded, just_linked>>
    /\ cache_lock = "free"
    /\ IF ~cache_valid
       THEN /\ cache_lock' = t
            /\ Goto(t, "process_audio")
            /\ UNCHANGED returned
       ELSE /\ cache_lock' = "free"
            /\ Deliver(t, IF processed.kind = "none" THEN EmptyBuf ELSE processed)
    /\ UNCHANGED <<audio_data, original_f0, original_sp, original_ap, f0_ratio,
                   formant_ratios, formant_link, bypass_mode, processed,
                   cache_valid, param_lock, recomputes>>
    /\ UNCHANGED appVars

\* line 338, read without _param_lock
ProcessAudio(t) ==
    /\ pc[t] = "process_audio"
    /\ UNCHANGED playerVars
    /\ UNCHANGED <<loaded, just_linked>>
    /\ IF original_f0 = 0 \/ audio_data = 0
       THEN StoreAndDeliver(t, EmptyBuf)
       ELSE /\ Goto(t, "process_locked")
            /\ UNCHANGED <<processed, cache_valid, cache_lock, recomputes, returned>>
    /\ UNCHANGED <<audio_data, original_f0, original_sp, original_ap, f0_ratio,
                   formant_ratios, formant_link, bypass_mode, param_lock>>
    /\ UNCHANGED appVars

\* lines 341-346: take _param_lock; bypass returns the original, else read F0
ProcessLocked(t) ==
    /\ pc[t] = "process_locked"
    /\ UNCHANGED playerVars
    /\ UNCHANGED <<loaded, just_linked>>
    /\ param_lock = "free"
    /\ IF bypass_mode
       THEN /\ param_lock' = "free"
            /\ StoreAndDeliver(t, BypassBuf(audio_data))
       ELSE /\ param_lock' = t
            /\ pc' = [pc EXCEPT ![t] = "process_sp"]
            /\ arg' = [arg EXCEPT ![t] = [f0 |-> original_f0] @@ @]
            /\ UNCHANGED <<ret, processed, cache_valid, cache_lock, recomputes, returned>>
    /\ UNCHANGED <<audio_data, original_f0, original_sp, original_ap, f0_ratio,
                   formant_ratios, formant_link, bypass_mode>>
    /\ UNCHANGED appVars

\* lines 349-361: read the envelope and shift it
ProcessSp(t) ==
    /\ pc[t] = "process_sp"
    /\ UNCHANGED playerVars
    /\ UNCHANGED <<loaded, just_linked>>
    /\ IF original_sp = 0
       THEN /\ param_lock' = "free"
            /\ StoreAndDeliver(t, EmptyBuf)
       ELSE /\ pc' = [pc EXCEPT ![t] = "process_synth"]
            /\ arg' = [arg EXCEPT ![t] = [sp |-> original_sp] @@ @]
            /\ UNCHANGED <<ret, param_lock, processed, cache_valid, cache_lock,
                           recomputes, returned>>
    /\ UNCHANGED <<audio_data, original_f0, original_sp, original_ap, f0_ratio,
                   formant_ratios, formant_link, bypass_mode>>
    /\ UNCHANGED appVars

\* lines 364-368: pw.synthesize reads the aperiodicity; with None it raises,
\* both `with` blocks are left and the cache stays invalid
ProcessSynth(t) ==
    /\ pc[t] = "process_synth"
    /\ UNCHANGED <<loaded, just_linked>>
    /\ param_lock' = "free"
    /\ IF original_ap = 0
       THEN /\ cache_lock' = "free"
            /\ Return(t, IF arg[t].op = "callback" THEN CallbackRaised ELSE Raised)
            /\ position_lock' = IF position_lock = t THEN "free" ELSE position_lock
            /\ stream' = IF arg[t].op = "callback" THEN "aborted" ELSE stream
            /\ UNCHANGED <<processed, cache_valid, recomputes, returned>>
       ELSE /\ StoreAndDeliver(t, SynthBuf(arg[t].f0, arg[t].sp, original_ap, f0_ratio,
                                           ShiftOf(formant_link, formant_ratios)))
            /\ UNCHANGED <<position_lock, stream>>
    /\ UNCHANGED <<is_playing, loop_enabled, loop_start, loop_end,
                   loop_crossfade_ms, volume, play_position, outdata>>
    /\ UNCHANGED <<audio_data, original_f0, original_sp, original_ap, f0_ratio,
                   formant_ratios, formant_link, bypass_mode>>
    /\ UNCHANGED appVars

----------------------------------------------------------------------------
(* load_audio and _analyze_audio; none of it takes a lock *)

\* lines 58-71: sf.read raises on an unreadable file, else audio_data is set
LoadRead(t) ==
    /\ pc[t] = "load_audio"
    /\ UNCHANGED playerVars
    /\ UNCHANGED <<loaded, just_linked>>
    /\ IF arg[t].file = BadFile
       THEN /\ Return(t, False)
            /\ UNCHANGED audio_data
       ELSE /\ audio_data' = arg[t].file
            /\ Goto(t, "analyze_f0")
    /\ UNCHANGED <<original_f0, original_sp, original_ap, f0_ratio,
                   formant_ratios, formant_link, bypass_mode, processed,
                   cache_valid, param_lock, cache_lock, recomputes, returned>>
    /\ UNCHANGED appVars

\* lines 91-93: pw.dio / pw.stonemask; an exception is caught at line 81
AnalyzeF0(t) ==
    /\ pc[t] = "analyze_f0"
    /\ UNCHANGED playerVars
    /\ UNCHANGED <<loaded, just_linked>>
    /\ IF audio_data = EmptyFile
       THEN /\ Return(t, False)
            /\ UNCHANGED original_f0
       ELSE /\ original_f0' = audio_data
            /\ Goto(t, "analyze_sp")
    /\ UNCHANGED <<audio_data, original_sp, original_ap, f0_ratio,
                   formant_ratios, formant_link, bypass_mode, processed,
                   cache_valid, param_lock, cache_lock, recomputes, returned>>
    /\ UNCHANGED appVars

\* lines 96-98: pw.cheaptrick
AnalyzeSp(t) ==
    /\ pc[t] = "analyze_sp"
    /\ UNCHANGED playerVars
    /\ UNCHANGED <<loaded, just_linked>>
    /\ original_sp' = audio_data
    /\ Goto(t, "analyze_ap")
    /\ UNCHANGED <<audio_data, original_f0, original_ap, f0_ratio,
                   formant_ratios, formant_link, bypass_mode, processed,
                   cache_valid, param_lock, cache_lock, recomputes, returned>>
    /\ UNCHANGED appVars

\* lines 101-103: pw.d4c, then line 77
AnalyzeAp(t) ==
    /\ pc[t] = "analyze_ap"
    /\ UNCHANGED playerVars
    /\ UNCHANGED <<loaded, just_linked>>
    /\ original_ap' = audio_data
    /\ Goto(t, "invalidate")
    /\ UNCHANGED <<audio_data, original_f0, original_sp, f0_ratio,
                   formant_ratios, formant_link, bypass_mode, processed,
                   cache_valid, param_lock, cache_lock, recomputes, returned>>
    /\ UNCHANGED appVars

----------------------------------------------------------------------------
(* AudioPlayer: arithmetic and numpy slicing *)

BlockSize == 3         \* frames per callback (buffer_size)
SampleRate == 4        \* processor.sample_rate, samples per second

Min2(a, b) == IF a < b THEN a ELSE b
Max2(a, b) == IF a > b THEN a ELSE b

\* int(num / den) for den > 0: Python truncates toward zero
Trunc(num, den) == IF num >= 0 THEN num \div den ELSE -((-num) \div den)

\* a clip that forgets the upper end
NpClipLowOnly(x, lo, hi) == Max2(x, lo)

\* np.clip(x, lo, hi) = minimum(maximum(x, lo), hi), also when hi < lo
NpClip(x, lo, hi) == Min2(Max2(x, lo), hi)

\* the 0-based indices a Python slice a:b selects from n items
SliceIdx(n, a, b) ==
    LET lo == IF a < 0 THEN Max2(a + n, 0) ELSE Min2(a, n)
        hi == IF b < 0 THEN Max2(b + n, 0) ELSE Min2(b, n)
    IN [k \in 1..Max2(hi - lo, 0) |-> lo + k - 1]

Junk == [kind |-> "junk"]      \* what the device buffer held before the fill
Zero == [kind |-> "zero"]

\* audio[a:b] * self.volume
ReadAudio(n, a, b, vol) ==
    LET S == SliceIdx(n, a, b)
    IN [k \in 1..Len(S) |-> [kind |-> "sample", i |-> S[k], v |-> vol]]

\* outdata[a:b, 0] = vals.  o.ok turns FALSE when numpy raises: the value
\* neither has the slice's length nor length 1 (broadcast)
Write(o, a, b, vals) ==
    LET T == SliceIdx(Len(o.out), a, b)
        fits == Len(vals) = Len(T) \/ Len(vals) = 1
    IN IF ~o.ok \/ ~fits
       THEN [o EXCEPT !.ok = FALSE]
       ELSE [o EXCEPT !.out =
               [j \in 1..Len(o.out) |->
                  IF Len(T) > 0 /\ j - 1 >= T[1] /\ j - 1 <= T[Len(T)]
                  THEN IF Len(vals) = 1 THEN vals[1] ELSE vals[j - T[1]]
                  ELSE o.out[j]]]

\* lines 109-116: outdata[a:b] *= fade_out; outdata[a:b] += audio[ls:ls+c] * fade_in
Crossfade(o, a, b, n, ls, c, vol) ==
    LET R == ReadAudio(n, ls, ls + c, vol)
        fits == Len(R) = c \/ Len(R) = 1
    IN IF ~o.ok \/ ~fits
       THEN [o EXCEPT !.ok = FALSE]
       ELSE [o EXCEPT !.out =
               [j \in 1..Len(o.out) |->
                  IF j - 1 >= a /\ j - 1 < b
                  THEN [kind |-> "mix", tail |-> o.out[j],
                        head |-> IF Len(R) = 1 THEN R[1] ELSE R[j - a],
                        k |-> j - 1 - a, c |-> c]
                  ELSE o.out[j]]]

\* lines 119-126: the while loop copying whole passes of the loop
RECURSIVE WrapFill(_, _, _, _, _, _, _)
WrapFill(o, p, remaining, loop_length, ls, n, vol) ==
    IF remaining <= 0 \/ ~o.ok
    THEN o
    ELSE LET chunk == Min2(remaining, loop_length)
         IN WrapFill(Write(o, p, p + chunk, ReadAudio(n, ls, ls + chunk, vol)),
                     p + chunk, remaining - chunk, loop_length, ls, n, vol)

\* line 72: loop_end = self.loop_end if self.loop_end > 0 else len(audio)
EffectiveEnd(le0, n) == IF le0 > 0 THEN le0 ELSE n

\* line 73: loop_start = min(self.loop_start, loop_end - 1)
EffectiveStart(ls0, le0, n) == Min2(ls0, EffectiveEnd(le0, n) - 1)

WrapPositionNoMod(ls, remaining, loop_length) == ls + remaining

\* line 129: loop_start + ((samples_needed - samples_available) % loop_length)
WrapPosition(ls, remaining, loop_length) == ls + (remaining % loop_length)

\* lines 70-161, the body under _position_lock.  n = len(audio).  The result
\* is the block, whether numpy raised, the new play_position and whether
\* self.stop() is called
FillBlock(n, frames, pos, ls0, le0, looping, cf_ms, vol) ==
    LET le == EffectiveEnd(le0, n)
        ls == EffectiveStart(ls0, le0, n)
        o0 == [out |-> [j \in 1..frames |-> Junk], ok |-> TRUE]
    IN IF looping /\ pos >= ls
       THEN LET avail == le - pos
            IN IF avail >= frames
               THEN LET o1 == Write(o0, 0, frames, ReadAudio(n, pos, pos + frames, vol))
                    IN [out |-> o1.out, ok |-> o1.ok,
                        pos |-> IF o1.ok THEN pos + frames ELSE pos, stop |-> FALSE]
               ELSE LET o1 == IF avail > 0
                              THEN Write(o0, 0, avail, ReadAudio(n, pos, le, vol))
                              ELSE o0
                        remaining == frames - avail
                        loop_length == le - ls
                    IN IF loop_length > 0
                       THEN LET c == Min2(Min2(Trunc(cf_ms * SampleRate, 1000), avail),
                                          loop_length \div 4)
                                o2 == IF avail > 0 /\ c > 0
                                      THEN Crossfade(o1, avail - c, avail, n, ls, c, vol)
                                      ELSE o1
                                o3 == WrapFill(o2, avail, remaining, loop_length, ls, n, vol)
                            IN [out |-> o3.out, ok |-> o3.ok,
                                pos |-> IF o3.ok THEN WrapPosition(ls, remaining, loop_length)
                                              ELSE pos,
                                stop |-> FALSE]
                       ELSE LET o2 == Write(o1, avail, frames, <<Zero>>)
                            IN [out |-> o2.out, ok |-> o2.ok,
                                pos |-> IF o2.ok THEN le ELSE pos, stop |-> FALSE]
       ELSE LET avail == n - pos
            IN IF avail >= frames
               THEN LET o1 == Write(o0, 0, frames, ReadAudio(n, pos, pos + frames, vol))
                    IN [out |-> o1.out, ok |-> o1.ok,
                        pos |-> IF o1.ok THEN pos + frames ELSE pos, stop |-> FALSE]
               ELSE LET o1 == IF avail > 0
                              THEN Write(o0, 0, avail, ReadAudio(n, pos, n, vol))
                              ELSE o0
                    IN IF ~o1.ok
                       THEN [out |-> o1.out, ok |-> FALSE, pos |-> pos, stop |-> FALSE]
                       ELSE IF looping
                       THEN LET remaining == frames - avail
                                o2 == Write(o1, avail, frames,
                                            ReadAudio(n, ls, ls + remaining, vol))
                            IN [out |-> o2.out, ok |-> o2.ok,
                                pos |-> ls + remaining, stop |-> FALSE]
                       ELSE LET o2 == Write(o1, avail, frames, <<Zero>>)
                            IN [out |-> o2.out, ok |-> o2.ok, pos |-> n, stop |-> TRUE]

----------------------------------------------------------------------------
(* AudioPlayer: the fill callback *)

\* PortAudio invokes the callback while the stream runs
CallAudioCallback(t) ==
    /\ stream = "active"
    /\ Enter(t, "get_processed_audio", [op |-> "callback"])

\* a callback is running on some other thread
CallbackRunning(t) == \E u \in Threads \ {t} : arg[u].op = "callback"

\* lines 66-161.  An exception leaves the `with` block and the callback;
\* PortAudio then aborts the stream
CallbackFill(t) ==
    /\ pc[t] = "callback_fill"
    /\ IF arg[t].audio.n = 0
       THEN /\ outdata' = [j \in 1..BlockSize |-> Zero]
            /\ Return(t, None)
            /\ UNCHANGED <<play_position, position_lock, stream>>
       ELSE /\ position_lock = "free"
            /\ LET r == FillBlock(arg[t].audio.n, BlockSize, play_position,
                                  loop_start, loop_end, loop_enabled,
                                  loop_crossfade_ms, volume)
               IN /\ outdata' = r.out
                  /\ play_position' = r.pos
                  /\ IF ~r.ok
                     THEN /\ Return(t, CallbackRaised)
                          /\ stream' = "aborted"
                          /\ UNCHANGED position_lock
                     ELSE IF r.stop
                     THEN /\ position_lock' = t
                          /\ Goto(t, "stop")
                          /\ UNCHANGED stream
                     ELSE /\ Return(t, None)
                          /\ UNCHANGED <<position_lock, stream>>
    /\ UNCHANGED <<engineVars, loaded, just_linked, is_playing, loop_enabled, loop_start, loop_end,
                   loop_crossfade_ms, volume, recomputes, returned>>
    /\ UNCHANGED appVars

----------------------------------------------------------------------------
(* AudioPlayer: start, stop, pause, resume *)

CallStart(t) == Enter(t, "start", [op |-> "start"])
CallStop(t) == Enter(t, "stop", [op |-> "stop"])
CallPause(t) == Enter(t, "pause", [op |-> "pause"])
CallResume(t) == Enter(t, "resume", [op |-> "resume"])

\* a test that never finds the player playing
NeverPlaying == FALSE

\* line 165: `if self.is_playing`
AlreadyPlaying == is_playing

\* lines 165-176.  sd.OutputStream(...) raises when the device cannot be
\* opened, and self.stream is not assigned; stream.start() raises when the
\* opened stream cannot be started, and self.stream keeps the new stream
Start(t) ==
    /\ pc[t] = "start"
    /\ IF AlreadyPlaying
       THEN /\ Return(t, None)
            /\ UNCHANGED stream
       ELSE \E outcome \in {"started", "open_failed", "start_failed"} :
              CASE outcome = "started" ->
                     /\ stream' = "active"
                     /\ Goto(t, "start_flag")
                [] outcome = "open_failed" ->
                     /\ Return(t, Raised)
                     /\ UNCHANGED stream
                [] outcome = "start_failed" ->
                     /\ Return(t, Raised)
                     /\ stream' = "stopped"
    /\ UNCHANGED <<engineVars, loaded, just_linked, is_playing, loop_enabled, loop_start, loop_end,
                   loop_crossfade_ms, volume, play_position, position_lock,
                   outdata, recomputes, returned>>
    /\ UNCHANGED appVars

\* lines 177-178 and 207: the flag is set after the stream has started
StartFlag(t) ==
    /\ pc[t] = "start_flag"
    /\ is_playing' = TRUE
    /\ Return(t, None)
    /\ UNCHANGED <<engineVars, loaded, just_linked, loop_enabled, loop_start, loop_end,
                   loop_crossfade_ms, volume, play_position, position_lock,
                   stream, outdata, recomputes, returned>>
    /\ UNCHANGED appVars

\* stop() called from the callback returns into the callback's `with` block,
\* which then ends: the callback leaves _position_lock and returns
LeaveStop(t) ==
    /\ position_lock' = IF arg[t].op = "callback" THEN "free" ELSE position_lock
    /\ Return(t, None)

\* line 182: `if not self.is_playing`
NotPlaying == ~is_playing

\* lines 182-191.  stream.stop() called from another thread waits for a
\* running callback to return
Stop(t) ==
    /\ pc[t] = "stop"
    /\ IF NotPlaying
       THEN /\ LeaveStop(t)
            /\ UNCHANGED <<is_playing, stream>>
       ELSE /\ stream # "none" => ~CallbackRunning(t)
            /\ is_playing' = FALSE
            /\ stream' = "none"
            /\ Goto(t, "stop_reset")
            /\ UNCHANGED position_lock
    /\ UNCHANGED <<engineVars, loaded, just_linked, loop_enabled, loop_start, loop_end,
                   loop_crossfade_ms, volume, play_position, outdata,
                   recomputes, returned>>
    /\ UNCHANGED appVars

\* a reset that keeps the position
KeepPosition == play_position

\* line 195: the position stop() stores
ResetPosition == 0

\* lines 194-195: `with self._position_lock` on a non-reentrant Lock
StopReset(t) ==
    /\ pc[t] = "stop_reset"
    /\ position_lock = "free"
    /\ play_position' = ResetPosition
    /\ LeaveStop(t)
    /\ UNCHANGED <<engineVars, loaded, just_linked, is_playing, loop_enabled, loop_start, loop_end,
                   loop_crossfade_ms, volume, stream, outdata, recomputes,
                   returned>>
    /\ UNCHANGED appVars

\* a pause that rewinds
PauseRewinds(t) ==
    /\ pc[t] = "pause"
    /\ IF stream # "none" /\ is_playing
       THEN /\ ~CallbackRunning(t)
            /\ stream' = "stopped"
            /\ is_playing' = FALSE
       ELSE UNCHANGED <<stream, is_playing>>
    /\ play_position' = 0
    /\ Return(t, None)
    /\ UNCHANGED <<engineVars, loaded, just_linked, loop_enabled, loop_start, loop_end,
                   loop_crossfade_ms, volume, position_lock,
                   outdata, recomputes, returned>>
    /\ UNCHANGED appVars

\* lines 199-201
Pause(t) ==
    /\ pc[t] = "pause"
    /\ IF stream # "none" /\ is_playing
       THEN /\ ~CallbackRunning(t)
            /\ stream' = "stopped"
            /\ is_playing' = FALSE
       ELSE UNCHANGED <<stream, is_playing>>
    /\ Return(t, None)
    /\ UNCHANGED <<engineVars, loaded, just_linked, loop_enabled, loop_start, loop_end,
                   loop_crossfade_ms, volume, play_position, position_lock,
                   outdata, recomputes, returned>>
    /\ UNCHANGED appVars

\* lines 205-206; stream.start() on a stream that PortAudio aborted and
\* nobody stopped raises
Resume(t) ==
    /\ pc[t] = "resume"
    /\ IF stream # "none" /\ ~is_playing
       THEN IF stream = "stopped"
            THEN /\ stream' = "active"
                 /\ Goto(t, "start_flag")
            ELSE /\ Return(t, Raised)
                 /\ UNCHANGED stream
       ELSE /\ Return(t, None)
            /\ UNCHANGED stream
    /\ UNCHANGED <<engineVars, loaded, just_linked, is_playing, loop_enabled, loop_start, loop_end,
                   loop_crossfade_ms, volume, play_position, position_lock,
                   outdata, recomputes, returned>>
    /\ UNCHANGED appVars

----------------------------------------------------------------------------
(* AudioPlayer: volume, loop, seek *)

\* volumes are passed in tenths
CallSetVolume(t, v) == Enter(t, "set_volume", [op |-> "set_volume", volume |-> v])

\* line 215: np.clip(volume, 0.0, 1.0); no lock is taken
SetVolume(t) ==
    /\ pc[t] = "set_volume"
    /\ volume' = NpClip(arg[t].volume, 0, 10)
    /\ Return(t, None)
    /\ UNCHANGED <<engineVars, loaded, just_linked, is_playing, loop_enabled, loop_start, loop_end,
                   loop_crossfade_ms, play_position, position_lock, stream,
                   outdata, recomputes, returned>>
    /\ UNCHANGED appVars

\* line 223 takes no lock and cannot block: one step
SetLoop(t, b) ==
    /\ pc[t] = "idle"
    /\ loop_enabled' = b
    /\ outdata' = <<>>
    /\ ret' = [ret EXCEPT ![t] = None]
    /\ UNCHANGED <<engineVars, loaded, just_linked, is_playing, volume, loop_start, loop_end,
                   loop_crossfade_ms, play_position, position_lock, stream,
                   pc, arg, recomputes, returned>>
    /\ UNCHANGED appVars

\* times are passed in milliseconds
CallSeek(t, ms) == Enter(t, "seek", [op |-> "seek", position_ms |-> ms])

CallSetLoopRegion(t, s_ms, e_ms) ==
    Enter(t, "set_loop_region", [op |-> "set_loop_region", start_ms |-> s_ms, end_ms |-> e_ms])

CallClearLoopRegion(t) == Enter(t, "clear_loop_region", [op |-> "clear_loop_region"])

CallSetLoopCrossfade(t, ms) ==
    Enter(t, "set_loop_crossfade", [op |-> "set_loop_crossfade", crossfade_ms |-> ms])

CallGetLoopRegion(t) == Enter(t, "get_loop_region", [op |-> "get_loop_region"])

\* lines 240-241, 252-257 and 309-311: take _position_lock, then call
\* get_processed_audio with the lock held
LockThenGet(t) ==
    /\ pc[t] \in {"seek", "set_loop_region", "get_loop_region"}
    /\ position_lock = "free"
    /\ position_lock' = t
    /\ Goto(t, "get_processed_audio")
    /\ UNCHANGED <<engineVars, loaded, just_linked, is_playing, loop_enabled, loop_start, loop_end,
                   loop_crossfade_ms, volume, play_position, stream, outdata,
                   recomputes, returned>>
    /\ UNCHANGED appVars

\* lines 242-243
SeekTarget(ms, n) == NpClip(Trunc(ms * SampleRate, 1000), 0, n - 1)

SeekStore(t) ==
    /\ pc[t] = "seek_store"
    /\ play_position' = SeekTarget(arg[t].position_ms, arg[t].audio.n)
    /\ position_lock' = "free"
    /\ Return(t, None)
    /\ UNCHANGED <<engineVars, loaded, just_linked, is_playing, loop_enabled, loop_start, loop_end,
                   loop_crossfade_ms, volume, stream, outdata, recomputes,
                   returned>>
    /\ UNCHANGED appVars

\* lines 254-284.  n = len(processed audio), m = len(processor.audio_data);
\* the effective sample rate is n / (m / sample_rate), or sample_rate when
\* the duration is 0
LoopRegion(s_ms, e_ms, n, m) ==
    LET start_ms == Max2(0, s_ms)
        num == IF m > 0 THEN n * SampleRate ELSE SampleRate
        den == IF m > 0 THEN 1000 * m ELSE 1000
        s1 == Trunc(start_ms * num, den)
        e1 == IF e_ms > 0 THEN Trunc(e_ms * num, den) ELSE 0
        s2 == Max2(0, Min2(s1, n - 1))
        e2 == IF e1 > 0 THEN Max2(s2 + 1, Min2(e1, n)) ELSE e1
    IN IF n > 0
       THEN IF e2 > 0 /\ e2 < s2 THEN <<e2, s2>> ELSE <<s2, e2>>
       ELSE <<0, 0>>

SetLoopRegionStore(t) ==
    /\ pc[t] = "set_loop_region_store"
    /\ LET region == LoopRegion(arg[t].start_ms, arg[t].end_ms, arg[t].audio.n,
                                FileLen(audio_data))
       IN /\ loop_start' = region[1]
          /\ loop_end' = region[2]
    /\ position_lock' = "free"
    /\ Return(t, None)
    /\ UNCHANGED <<engineVars, loaded, just_linked, is_playing, loop_enabled, loop_crossfade_ms,
                   volume, play_position, stream, outdata, recomputes, returned>>
    /\ UNCHANGED appVars

\* A time in seconds is kept exact, as <<numerator, denominator>> of a
\* count of milliseconds.  x samples at n / (m / sample_rate) samples per
\* second, or at sample_rate when the duration is 0
SamplesToTime(x, n, m) ==
    IF m > 0 THEN <<x * 1000 * m, n * SampleRate>> ELSE <<x * 1000, SampleRate>>

\* the property `duration`, lines 432-434
duration == IF audio_data = 0 THEN <<0, 1>> ELSE <<FileLen(audio_data) * 1000, SampleRate>>

\* lines 314-328
GetRegion(ls, le, n, m) ==
    IF n > 0
    THEN [kind |-> "region", start |-> SamplesToTime(ls, n, m),
          end |-> IF le > 0 THEN SamplesToTime(le, n, m) ELSE <<0, 1>>]
    ELSE [kind |-> "region", start |-> <<0, 1>>, end |-> <<0, 1>>]

GetLoopRegionReturn(t) ==
    /\ pc[t] = "get_loop_region_return"
    /\ position_lock' = "free"
    /\ Return(t, GetRegion(loop_start, loop_end, arg[t].audio.n, FileLen(audio_data)))
    /\ UNCHANGED <<engineVars, loaded, just_linked, is_playing, loop_enabled, loop_start,
                   loop_end, loop_crossfade_ms, volume, play_position, stream, outdata,
                   recomputes, returned>>
    /\ UNCHANGED appVars

\* lines 332-334
ClearLoopRegion(t) ==
    /\ pc[t] = "clear_loop_region"
    /\ position_lock = "free"
    /\ loop_start' = 0
    /\ loop_end' = 0
    /\ Return(t, None)
    /\ UNCHANGED <<engineVars, loaded, just_linked, is_playing, loop_enabled, loop_crossfade_ms,
                   volume, play_position, position_lock, stream, outdata,
                   recomputes, returned>>
    /\ UNCHANGED appVars

\* lines 292-293
SetLoopCrossfade(t) ==
    /\ pc[t] = "set_loop_crossfade"
    /\ position_lock = "free"
    /\ loop_crossfade_ms' = NpClip(arg[t].crossfade_ms, 0, 500)
    /\ Return(t, None)
    /\ UNCHANGED <<engineVars, loaded, just_linked, is_playing, loop_enabled, loop_start, loop_end,
                   volume, play_position, position_lock, stream, outdata,
                   recomputes, returned>>
    /\ UNCHANGED appVars

----------------------------------------------------------------------------
(* The last call made on an object that is used by one thread: which
   operation, its arguments, what it found and what it returned *)

NoCall == [op |-> "none"]

----------------------------------------------------------------------------
(* AudioRecorder.  The recorder's methods are called by one thread and run
   under _state_lock; the input stream's thread runs _audio_callback.
   recorder_stream is "none" (self._stream is None), "active" (a started
   stream) or "unstarted" (a stream object whose start() raised).
   A block is the number of its arrival since the stream was opened. *)

MaxBlocks == 3         \* blocks one input stream delivers

Gain == 2              \* settings.gain

\* output_dir / f"recording_{timestamp}.wav"
OutputFile == [kind |-> "path"]

\* state and stream handle as a call finds them
RecorderBefore == [state |-> recorder_state, stream |-> recorder_stream]

RecorderReturn(name, v) ==
    recorder_ret' = [op |-> name, before |-> RecorderBefore, result |-> v]

\* lines 112-157.  From IDLE: output_dir.mkdir may raise before the try
\* block; sd.InputStream(...) may raise, and self._stream is not assigned;
\* self._stream.start() may raise, and self._stream keeps the new stream
StartRecording ==
    /\ IF recorder_state = "recording"
       THEN /\ RecorderReturn("start_recording", None)
            /\ UNCHANGED <<recorder_state, recorder_stream, recording_queue,
                           recording_data, delivered, captured>>
       ELSE IF recorder_state = "paused"
       THEN /\ recorder_state' = "recording"
            /\ RecorderReturn("start_recording", None)
            /\ UNCHANGED <<recorder_stream, recording_queue, recording_data,
                           delivered, captured>>
       ELSE /\ recording_data' = <<>>
            /\ recording_queue' = <<>>
            /\ captured' = <<>>
            /\ \E outcome \in {"mkdir_failed", "open_failed", "start_failed", "started"} :
                 CASE outcome = "mkdir_failed" ->
                        /\ RecorderReturn("start_recording", Raised)
                        /\ UNCHANGED <<recorder_state, recorder_stream, delivered>>
                   [] outcome = "open_failed" ->
                        /\ recorder_state' = "idle"
                        /\ RecorderReturn("start_recording", None)
                        /\ UNCHANGED <<recorder_stream, delivered>>
                   [] outcome = "start_failed" ->
                        /\ recorder_stream' = "unstarted"
                        /\ delivered' = 0
                        /\ recorder_state' = "idle"
                        /\ RecorderReturn("start_recording", None)
                   [] outcome = "started" ->
                        /\ recorder_stream' = "active"
                        /\ delivered' = 0
                        /\ recorder_state' = "recording"
                        /\ RecorderReturn("start_recording", OutputFile)
    /\ UNCHANGED <<audioVars, settingsVars, presetVars, configVars>>

\* a test that finds the recorder recording whatever its state
AlwaysRecording == TRUE

\* line 166: self.state == RecorderState.RECORDING
IsRecording == recorder_state = "recording"

\* lines 165-173
PauseRecording ==
    /\ IF IsRecording
       THEN /\ recorder_state' = "paused"
            /\ RecorderReturn("pause_recording", True)
       ELSE /\ RecorderReturn("pause_recording", False)
            /\ UNCHANGED recorder_state
    /\ UNCHANGED <<recorder_stream, recording_queue, recording_data, delivered,
                   captured>>
    /\ UNCHANGED <<audioVars, settingsVars, presetVars, configVars>>

\* lines 184-226: stop and close the stream, move what the queue holds to
\* the data, go IDLE; then, outside the lock, write the data to the file.
\* sf.write may raise, which is caught.
StopRecording ==
    /\ IF recorder_state = "idle"
       THEN /\ RecorderReturn("stop_recording", None)
            /\ UNCHANGED <<recorder_state, recorder_stream, recording_queue,
                           recording_data>>
       ELSE /\ recorder_stream' = "none"
            /\ recording_data' = recording_data \o recording_queue
            /\ recording_queue' = <<>>
            /\ recorder_state' = "idle"
            /\ IF recording_data' = <<>>
               THEN RecorderReturn("stop_recording", None)
               ELSE \/ recorder_ret' = [op |-> "stop_recording", before |-> RecorderBefore,
                                        result |-> OutputFile, written |-> recording_data']
                    \/ RecorderReturn("stop_recording", None)
    /\ UNCHANGED <<delivered, captured>>
    /\ UNCHANGED <<audioVars, settingsVars, presetVars, configVars>>

\* lines 273-282, invoked by PortAudio while the stream runs
RecorderCallback ==
    /\ recorder_stream = "active"
    /\ delivered < MaxBlocks
    /\ delivered' = delivered + 1
    /\ IF recorder_state # "recording"
       THEN UNCHANGED <<recording_queue, recording_data, captured>>
       ELSE LET indata == delivered + 1
                data == indata * Gain
            IN /\ recording_queue' = Append(recording_queue, data)
               /\ recording_data' = Append(recording_data, data)
               /\ captured' = Append(captured, indata)
    /\ UNCHANGED <<recorder_state, recorder_stream, recorder_ret>>
    /\ UNCHANGED <<audioVars, settingsVars, presetVars, configVars>>

----------------------------------------------------------------------------
(* SettingsManager *)

MAX_SLOTS == 4

\* f"スロット {i + 1}"
SlotName(i) == <<"slot 1", "slot 2", "slot 3", "slot 4">>[i + 1]

\* SettingsSlot(name=...) with the dataclass defaults and __post_init__
SettingsSlot(i) ==
    [name |-> SlotName(i), f0_ratio |-> RatioOne,
     formant_ratios |-> [g \in FormantNames |-> RatioOne],
     formant_link |-> TRUE, is_empty |-> TRUE]

\* a test of the index that forgets the lower end
ValidIndexBelowMaxOnly(index) == index < MAX_SLOTS

\* lines 80, 103, 125, 140, 169, 193: 0 <= index < self.MAX_SLOTS
ValidIndex(index) == 0 <= index /\ index < MAX_SLOTS

\* self.slots[index]: Python counts a negative index from the end
ListIndex(index) == IF index < 0 THEN index + MAX_SLOTS ELSE index

\* slots and current index as a call finds them
SettingsBefore == [slots |-> slots, current_slot_index |-> current_slot_index]

SettingsReturn(call, v) ==
    settings_ret' = call @@ [before |-> SettingsBefore, result |-> v]

\* lines 80-92; `if name:` skips None and the empty string alike, an absent
\* name is passed as ""
SaveToSlot(index, v, name) ==
    LET call == [op |-> "save_to_slot", index |-> index, values |-> v, name |-> name]
    IN /\ IF ~ValidIndex(index)
          THEN /\ SettingsReturn(call, False)
               /\ UNCHANGED slots
          ELSE /\ slots' = [slots EXCEPT ![ListIndex(index)] =
                              [name |-> IF name # "" THEN name ELSE @.name,
                               f0_ratio |-> v.f0_ratio,
                               formant_ratios |-> v.formant_ratios,
                               formant_link |-> v.formant_link,
                               is_empty |-> FALSE]]
               /\ SettingsReturn(call, True)
       /\ UNCHANGED current_slot_index
       /\ UNCHANGED <<audioVars, recorderVars, presetVars, configVars>>

\* lines 103-114: what load_from_slot returns on the slots ss
load_from_slot(ss, index) ==
    IF ~ValidIndex(index) THEN None
    ELSE IF ss[ListIndex(index)].is_empty THEN None
    ELSE [f0_ratio |-> ss[ListIndex(index)].f0_ratio,
          formant_ratios |-> ss[ListIndex(index)].formant_ratios,
          formant_link |-> ss[ListIndex(index)].formant_link]

LoadFromSlot(index) ==
    /\ SettingsReturn([op |-> "load_from_slot", index |-> index],
                      load_from_slot(slots, index))
    /\ UNCHANGED <<slots, current_slot_index>>
    /\ UNCHANGED <<audioVars, recorderVars, presetVars, configVars>>

\* lines 125-129
ClearSlot(index) ==
    LET call == [op |-> "clear_slot", index |-> index]
    IN /\ IF ~ValidIndex(index)
          THEN /\ SettingsReturn(call, False)
               /\ UNCHANGED slots
          ELSE /\ slots' = [slots EXCEPT ![ListIndex(index)] = SettingsSlot(index)]
               /\ SettingsReturn(call, True)
       /\ UNCHANGED current_slot_index
       /\ UNCHANGED <<audioVars, recorderVars, presetVars, configVars>>

\* lines 140-150
GetSlotInfo(index) ==
    LET call == [op |-> "get_slot_info", index |-> index]
        slot == slots[ListIndex(index)]
    IN /\ IF ~ValidIndex(index)
          THEN SettingsReturn(call, None)
          ELSE SettingsReturn(call,
                   [name |-> slot.name, is_empty |-> slot.is_empty,
                    f0_ratio |-> IF ~slot.is_empty THEN <<slot.f0_ratio>> ELSE <<>>,
                    formant_ratios |-> IF ~slot.is_empty THEN <<slot.formant_ratios>> ELSE <<>>,
                    formant_link |-> IF ~slot.is_empty THEN <<slot.formant_link>> ELSE <<>>])
       /\ UNCHANGED <<slots, current_slot_index>>
       /\ UNCHANGED <<audioVars, recorderVars, presetVars, configVars>>

\* lines 169-173
SetCurrentSlot(index) ==
    LET call == [op |-> "set_current_slot", index |-> index]
    IN /\ IF ~ValidIndex(index)
          THEN /\ SettingsReturn(call, False)
               /\ UNCHANGED current_slot_index
          ELSE /\ current_slot_index' = index
               /\ SettingsReturn(call, True)
       /\ UNCHANGED slots
       /\ UNCHANGED <<audioVars, recorderVars, presetVars, configVars>>

\* lines 193-197
RenameSlot(index, name) ==
    LET call == [op |-> "rename_slot", index |-> index, name |-> name]
    IN /\ IF ~ValidIndex(index)
          THEN /\ SettingsReturn(call, False)
               /\ UNCHANGED slots
          ELSE /\ slots' = [slots EXCEPT ![ListIndex(index)].name = name]
               /\ SettingsReturn(call, True)
       /\ UNCHANGED current_slot_index
       /\ UNCHANGED <<audioVars, recorderVars, presetVars, configVars>>

\* a slot dict without the is_empty key
SlotToDictNoFlag(slot) ==
    [name |-> slot.name, f0_ratio |-> slot.f0_ratio,
     formant_ratios |-> slot.formant_ratios, formant_link |-> slot.formant_link]

\* SettingsSlot.to_dict, lines 26-32
SlotToDict(slot) ==
    [name |-> slot.name, f0_ratio |-> slot.f0_ratio,
     formant_ratios |-> slot.formant_ratios, formant_link |-> slot.formant_link,
     is_empty |-> slot.is_empty]

\* SettingsSlot.from_dict, lines 37-43, and __post_init__: data.get(key, default)
SlotFromDict(d) ==
    LET get(k, default) == IF k \in DOMAIN d THEN d[k] ELSE default
    IN [name |-> get("name", ""),
        f0_ratio |-> get("f0_ratio", RatioOne),
        formant_ratios |-> get("formant_ratios", [g \in FormantNames |-> RatioOne]),
        formant_link |-> get("formant_link", TRUE),
        is_empty |-> get("is_empty", TRUE)]

\* SettingsManager.to_dict, lines 205-208: the slots as a list
to_dict ==
    [slots |-> [k \in 1..MAX_SLOTS |-> SlotToDict(slots[k - 1])],
     current_slot_index |-> current_slot_index]

\* SettingsManager().from_dict(data), lines 51-58 and 216-220, on a new
\* manager: the first MAX_SLOTS entries of the list replace its slots
from_dict(data) ==
    [slots |-> [i \in 0..(MAX_SLOTS - 1) |->
                  IF i < Len(data.slots) THEN SlotFromDict(data.slots[i + 1])
                  ELSE SettingsSlot(i)],
     current_slot_index |-> data.current_slot_index]

\* the settings are written out with to_dict and read into a new manager,
\* which takes the place of this one
RoundTrip ==
    /\ slots' = from_dict(to_dict).slots
    /\ current_slot_index' = from_dict(to_dict).current_slot_index
    /\ SettingsReturn([op |-> "from_dict"], None)
    /\ UNCHANGED <<audioVars, recorderVars, presetVars, configVars>>

----------------------------------------------------------------------------
(* PresetManager.  A name is the sequence of its code points, so that the
   file name derived from it and the order of sorted() are computed as
   Python computes them.  preset_files maps the stem of each *.json file of
   preset_dir to the data written in it. *)

\* str.lower() on one code point (ASCII)
Lower(c) == IF c \in 65..90 THEN c + 32 ELSE c

\* lines 61 and 100: name.replace(' ', '_').lower()
FileStem(name) == [i \in DOMAIN name |-> Lower(IF name[i] = 32 THEN 95 ELSE name[i])]

\* the file is in a subdirectory of preset_dir when the name holds a "/";
\* no such directory is ever made
InSubdirectory(name) == \E i \in DOMAIN name : name[i] = 47

\* a < b for Python strings: by code point, a proper prefix first
RECURSIVE StrLess(_, _)
StrLess(a, b) ==
    IF b = <<>> THEN FALSE
    ELSE IF a = <<>> THEN TRUE
    ELSE IF a[1] # b[1] THEN a[1] < b[1]
    ELSE StrLess(Tail(a), Tail(b))

\* sorted(names)
RECURSIVE Sorted(_)
Sorted(names) ==
    IF names = {} THEN <<>>
    ELSE LET least == CHOOSE x \in names : \A y \in names \ {x} : StrLess(x, y)
         IN <<least>> \o Sorted(names \ {least})

\* Preset(name, f0_ratio, formant_ratios, formant_link, description)
Preset(name, r) ==
    [name |-> name, f0_ratio |-> r, formant_ratios |-> [g \in FormantNames |-> r],
     formant_link |-> TRUE, description |-> ""]

\* a dict with key k set to v
With(d, k, v) == [x \in DOMAIN d \cup {k} |-> IF x = k THEN v ELSE d[x]]

\* a dict without the keys that share k's file
WithoutSameFile(d, k) ==
    [x \in {y \in DOMAIN d : FileStem(y) # FileStem(k)} |-> d[x]]

\* del d[k]
Without(d, k) == [x \in DOMAIN d \ {k} |-> d[x]]

\* cache and directory as a call finds them
PresetsBefore == [user_presets |-> user_presets, preset_files |-> preset_files]

PresetsReturn(call, v) ==
    presets_ret' = call @@ [before |-> PresetsBefore, result |-> v]

\* lines 59-84.  Opening the file for writing raises when its directory
\* is missing or not writable; the exception is caught
SavePreset(preset) ==
    LET call == [op |-> "save_preset", preset |-> preset]
    IN /\ \E outcome \in {"saved", "open_failed"} :
            IF outcome = "open_failed" \/ InSubdirectory(preset.name)
            THEN /\ PresetsReturn(call, False)
                 /\ UNCHANGED <<user_presets, preset_files>>
            ELSE /\ preset_files' = With(preset_files, FileStem(preset.name), preset)
                 /\ user_presets' = With(user_presets, preset.name, preset)
                 /\ PresetsReturn(call, True)
       /\ UNCHANGED <<audioVars, recorderVars, settingsVars, configVars>>

\* lines 95-113.  unlink may raise, which is caught before the cache changes
DeletePreset(name) ==
    LET call == [op |-> "delete_preset", name |-> name]
        stem == FileStem(name)
    IN /\ IF name \notin DOMAIN user_presets
          THEN /\ PresetsReturn(call, False)
               /\ UNCHANGED <<user_presets, preset_files>>
          ELSE \/ /\ preset_files' = Without(preset_files, stem)
                  /\ user_presets' = Without(user_presets, name)
                  /\ PresetsReturn(call, True)
               \/ /\ stem \in DOMAIN preset_files
                  /\ PresetsReturn(call, False)
                  /\ UNCHANGED <<user_presets, preset_files>>
       /\ UNCHANGED <<audioVars, recorderVars, settingsVars, configVars>>

\* lines 38-44: the preset built from the data of one file
PresetFromData(data) ==
    [name |-> data.name,
     description |-> IF "description" \in DOMAIN data THEN data.description ELSE "",
     f0_ratio |-> data.f0_ratio,
     formant_ratios |-> data.formant_ratios,
     formant_link |-> IF "formant_link" \in DOMAIN data THEN data.formant_link ELSE TRUE]

\* _load_presets, lines 31-45, as a new PresetManager runs it on the
\* directory: every file's preset under the name written in the file
load_presets(files) ==
    LET names == {files[stem].name : stem \in DOMAIN files}
    IN [name \in names |->
          PresetFromData(files[CHOOSE stem \in DOMAIN files : files[stem].name = name])]

\* line 124: self._user_presets.get(name)
get_preset(name) == IF name \in DOMAIN user_presets THEN user_presets[name] ELSE None

GetPreset(name) ==
    /\ PresetsReturn([op |-> "get_preset", name |-> name], get_preset(name))
    /\ UNCHANGED <<user_presets, preset_files>>
    /\ UNCHANGED <<audioVars, recorderVars, settingsVars, configVars>>

\* line 132: sorted(self._user_presets.keys())
list_presets == Sorted(DOMAIN user_presets)

ListPresets ==
    /\ PresetsReturn([op |-> "list_presets"], list_presets)
    /\ UNCHANGED <<user_presets, preset_files>>
    /\ UNCHANGED <<audioVars, recorderVars, settingsVars, configVars>>

----------------------------------------------------------------------------
(* Config: the list of recent files *)

max_recent_files == 3  \* Config.max_recent_files

\* a remove that removes nothing
RemoveNothing(l, x) == l

\* list.remove(x): the first occurrence of x is taken out
Remove(l, x) ==
    LET k == CHOOSE i \in 1..Len(l) : l[i] = x /\ \A j \in 1..(i - 1) : l[j] # x
    IN SubSeq(l, 1, k - 1) \o SubSeq(l, k + 1, Len(l))

\* l[:n] for n >= 0
Prefix(l, n) == SubSeq(l, 1, Min2(n, Len(l)))

\* lines 141-149
AddRecentFile(file_path) ==
    LET removed == IF \E i \in 1..Len(recent_files) : recent_files[i] = file_path
                   THEN Remove(recent_files, file_path)
                   ELSE recent_files
        inserted == <<file_path>> \o removed
    IN /\ recent_files' = IF Len(inserted) > max_recent_files
                         THEN Prefix(inserted, max_recent_files)
                         ELSE inserted
       /\ config_ret' = [op |-> "add_recent_file", file_path |-> file_path,
                         before |-> recent_files]
       /\ UNCHANGED <<audioVars, recorderVars, settingsVars, presetVars>>

----------------------------------------------------------------------------
(* Specifications *)

Init ==
    /\ audio_data = 0
    /\ original_f0 = 0
    /\ original_sp = 0
    /\ original_ap = 0
    /\ f0_ratio = RatioOne
    /\ formant_ratios = [g \in FormantNames |-> RatioOne]
    /\ formant_link = TRUE
    /\ bypass_mode = FALSE
    /\ processed = NoneBuf
    /\ cache_valid = FALSE
    /\ param_lock = "free"
    /\ cache_lock = "free"
    /\ is_playing = FALSE
    /\ loop_enabled = TRUE
    /\ loop_start = 0
    /\ loop_end = 0
    /\ loop_crossfade_ms = 50
    /\ volume = 10
    /\ play_position = 0
    /\ position_lock = "free"
    /\ stream = "none"
    /\ outdata = <<>>
    /\ pc = [t \in Threads |-> "idle"]
    /\ arg = [t \in Threads |-> NoArg]
    /\ ret = [t \in Threads |-> None]
    /\ loaded = 0
    /\ just_linked = FALSE
    /\ recomputes = 0
    /\ returned = {}
    /\ recorder_state = "idle"
    /\ recorder_stream = "none"
    /\ recording_queue = <<>>
    /\ recording_data = <<>>
    /\ recorder_ret = NoCall
    /\ delivered = 0
    /\ captured = <<>>
    /\ slots = [i \in 0..(MAX_SLOTS - 1) |-> SettingsSlot(i)]
    /\ current_slot_index = 0
    /\ settings_ret = NoCall
    /\ user_presets = <<>>
    /\ preset_files = <<>>
    /\ presets_ret = NoCall
    /\ recent_files = <<>>
    /\ config_ret = NoCall

\* ratio arguments: below the range, inside it, above it
RatioInputs == {1, 10, 15, 30}
FewRatios == {10, 30}

\* params dicts handed to set_parameters
ParamDicts(rs) ==
    {[f0_ratio |-> r] : r \in rs}
    \cup {[formant_ratios |-> [g \in {f} |-> r]] : f \in FormantNames, r \in rs}
    \cup {[formant_link |-> b] : b \in BOOLEAN}
    \cup {[f0_ratio |-> r, formant_ratios |-> [g \in FormantNames |-> r],
           formant_link |-> b] : r \in rs, b \in BOOLEAN}
    \cup {[name |-> "preset"]}

\* params dicts with a formant name the engine does not have and with the
\* extra keys of a preset
ExtraDicts(rs) ==
    {[formant_ratios |-> [g \in {"f1", "f4"} |-> r]] : r \in rs}
    \cup {[f0_ratio |-> r, description |-> "d"] : r \in rs}

SetterCalls(t, rs, fs, ds) ==
    \/ \E r \in rs : CallSetF0Ratio(t, r)
    \/ \E f \in fs, r \in rs : CallSetFormantRatio(t, f, r)
    \/ \E b \in BOOLEAN : CallSetFormantLink(t, b)
    \/ \E b \in BOOLEAN : CallSetBypassMode(t, b)
    \/ \E p \in ds : CallSetParameters(t, p)

SetterSteps(t) ==
    \/ SetF0Ratio(t)
    \/ SetFormantRatio(t)
    \/ SetFormantLink(t)
    \/ SetBypassMode(t)
    \/ SetParameters(t)
    \/ InvalidateCache(t)

GetSteps(t) ==
    \/ GetProcessedAudio(t)
    \/ ProcessAudio(t)
    \/ ProcessLocked(t)
    \/ ProcessSp(t)
    \/ ProcessSynth(t)

LoadSteps(t) ==
    \/ LoadRead(t)
    \/ AnalyzeF0(t)
    \/ AnalyzeSp(t)
    \/ AnalyzeAp(t)

\* One thread, parameter setters only, with ratios on both sides of the range
NextParams ==
    \/ SetterCalls("ctl", RatioInputs, FormantNames \cup {"f4"}, ParamDicts(RatioInputs))
    \/ \E p \in ExtraDicts(RatioInputs) : CallSetParameters("ctl", p)
    \/ CallSetParameters("ctl", get_parameters)
    \/ SetterSteps("ctl")

SpecParams == Init /\ [][NextParams]_vars

\* The engine driven by one caller at a time: a call starts only when no
\* other call is running
NextEngineSeq ==
    \/ SetterCalls("ctl", FewRatios, FormantNames, ParamDicts(FewRatios))
    \/ CallGetProcessedAudio("ctl")
    \/ \E f \in Files \cup {BadFile, EmptyFile} : CallLoadAudio("ctl", f)
    \/ SetterSteps("ctl")
    \/ GetSteps("ctl")
    \/ LoadSteps("ctl")

SpecEngineSeq == Init /\ [][NextEngineSeq]_vars

\* The control thread sets parameters and loads while the real-time thread
\* fetches the processed audio
NextEngine ==
    \/ SetterCalls("ctl", {30}, {"f2"}, {[f0_ratio |-> 10, formant_link |-> TRUE]})
    \/ \E f \in Files : CallLoadAudio("ctl", f)
    \/ \E t \in Threads : CallGetProcessedAudio(t)
    \/ \E t \in Threads : SetterSteps(t) \/ GetSteps(t) \/ LoadSteps(t)

SpecEngine == Init /\ [][NextEngine]_vars

\* time arguments in milliseconds (negative, zero, inside, past the end)
SeekTimes == {-1000, 0, 400, 1000, 5000}
RegionTimes == {-500, 0, 100, 500, 1000, 5000}
FewSeekTimes == {-1000, 250, 750, 5000}
FewRegions == {<<250, 750>>, <<500, 0>>, <<0, 500>>, <<1000, 250>>, <<-500, 5000>>}
CrossfadeInputs == {-50, 250, 600}
VolumeInputs == {-5, 5, 15}

\* Playback: the control thread loads, toggles bypass, starts and stops the
\* stream, seeks and sets the loop; the stream's thread runs the callback.
\* One call at a time.
FillCalls(t) ==
    \/ CallStart(t)
    \/ CallStop(t)
    \/ \E b \in BOOLEAN : SetLoop(t, b)
    \/ \E ms \in FewSeekTimes : CallSeek(t, ms)
    \/ \E r \in FewRegions : CallSetLoopRegion(t, r[1], r[2])
    \/ CallClearLoopRegion(t)
    \/ CallSetLoopCrossfade(t, 250)
    \/ \E f \in Files : CallLoadAudio(t, f)
    \/ \E b \in BOOLEAN : CallSetBypassMode(t, b)

FillSteps(t) ==
    \/ CallbackFill(t)
    \/ Start(t)
    \/ StartFlag(t)
    \/ Stop(t)
    \/ StopReset(t)
    \/ LockThenGet(t)
    \/ SeekStore(t)
    \/ SetLoopRegionStore(t)
    \/ ClearLoopRegion(t)
    \/ SetLoopCrossfade(t)
    \/ SetBypassMode(t)
    \/ InvalidateCache(t)
    \/ GetSteps(t)
    \/ LoadSteps(t)

NextPlayer ==
    \/ Quiet /\ FillCalls("ctl")
    \/ Quiet /\ CallAudioCallback("rt")
    \/ \E t \in Threads : FillSteps(t)

SpecPlayer == Init /\ [][NextPlayer]_vars

\* Transport: the control thread loads a file, starts, pauses, resumes and
\* stops the stream, seeks, and sets volume, loop flag, loop region and
\* crossfade with values inside and outside their ranges; the stream's
\* thread runs the callback.  One call at a time.
TransportCalls(t) ==
    \/ CallLoadAudio(t, 1)
    \/ CallStart(t)
    \/ CallStop(t)
    \/ CallPause(t)
    \/ CallResume(t)
    \/ CallSeek(t, 750)
    \/ \E v \in VolumeInputs : CallSetVolume(t, v)
    \/ \E b \in BOOLEAN : SetLoop(t, b)
    \/ CallSetLoopRegion(t, 250, 750)
    \/ CallClearLoopRegion(t)
    \/ \E ms \in CrossfadeInputs : CallSetLoopCrossfade(t, ms)

TransportSteps(t) ==
    \/ CallbackFill(t)
    \/ Start(t)
    \/ StartFlag(t)
    \/ Stop(t)
    \/ StopReset(t)
    \/ Pause(t)
    \/ Resume(t)
    \/ SetVolume(t)
    \/ LockThenGet(t)
    \/ SeekStore(t)
    \/ SetLoopRegionStore(t)
    \/ ClearLoopRegion(t)
    \/ SetLoopCrossfade(t)
    \/ InvalidateCache(t)
    \/ GetSteps(t)
    \/ LoadSteps(t)

NextTransport ==
    \/ Quiet /\ TransportCalls("ctl")
    \/ Quiet /\ CallAudioCallback("rt")
    \/ \E t \in Threads : TransportSteps(t)

SpecTransport == Init /\ [][NextTransport]_vars

\* Real time: the control thread loads a file, starts and stops the stream
\* and sets the pitch ratio at any moment, also while the stream's thread is
\* inside the callback
NextRealtime ==
    \/ Quiet /\ CallLoadAudio("ctl", 1)
    \/ Quiet /\ CallStart("ctl")
    \/ Quiet /\ CallStop("ctl")
    \/ \E r \in FewRatios : CallSetF0Ratio("ctl", r)
    \/ CallAudioCallback("rt")
    \/ \E t \in Threads :
          \/ SetF0Ratio(t)
          \/ InvalidateCache(t)
          \/ GetSteps(t)
          \/ LoadSteps(t)
          \/ CallbackFill(t)
          \/ Start(t)
          \/ StartFlag(t)
          \/ Stop(t)
          \/ StopReset(t)

SpecRealtime == Init /\ [][NextRealtime]_vars

\* The recorder: start, pause and stop in any order while the input stream
\* delivers blocks
NextRecorder ==
    \/ StartRecording
    \/ PauseRecording
    \/ StopRecording
    \/ RecorderCallback

SpecRecorder == Init /\ [][NextRecorder]_vars

\* slot indices: one below the range, the range, one above it
SlotIndexes == (-1)..MAX_SLOTS

\* what save_to_slot is given: parameters without a name, and parameters
\* with one formant only and a ratio outside [0.5, 2.0] under the name "A"
SaveInputs ==
    {[values |-> [f0_ratio |-> 15, formant_ratios |-> [g \in FormantNames |-> 12],
                  formant_link |-> TRUE],
      name |-> ""],
     [values |-> [f0_ratio |-> 8, formant_ratios |-> [g \in {"f1"} |-> 30],
                  formant_link |-> FALSE],
      name |-> "A"]}

\* The settings manager: every operation with every index
NextSettings ==
    \/ \E index \in SlotIndexes, given \in SaveInputs :
          SaveToSlot(index, given.values, given.name)
    \/ \E index \in SlotIndexes : LoadFromSlot(index)
    \/ \E index \in SlotIndexes : ClearSlot(index)
    \/ \E index \in SlotIndexes : GetSlotInfo(index)
    \/ \E index \in SlotIndexes : SetCurrentSlot(index)
    \/ \E index \in SlotIndexes : RenameSlot(index, "A")
    \/ RoundTrip

SpecSettings == Init /\ [][NextSettings]_vars

\* preset names: "A b", "Z", "a_b" and "x/y".  The first and the third are
\* written to the same file; the last names a file in a missing directory.
PresetNames == {<<65, 32, 98>>, <<90>>, <<97, 95, 98>>, <<120, 47, 121>>}

\* The preset manager on a directory that starts empty
NextPresets ==
    \/ \E name \in PresetNames, r \in {12, 15} : SavePreset(Preset(name, r))
    \/ \E name \in PresetNames : DeletePreset(name)
    \/ \E name \in PresetNames : GetPreset(name)
    \/ ListPresets

SpecPresets == Init /\ [][NextPresets]_vars

NumPaths == 6          \* file paths handed to add_recent_file

\* The configuration: files are added to the recent files, starting from
\* the empty list of a new Config
NextConfig == \E file_path \in 1..NumPaths : AddRecentFile(file_path)

SpecConfig == Init /\ [][NextConfig]_vars

\* The control thread alone, no stream: loading (also files that fail),
\* bypass, seeking, the loop region and the read calls, one call at a time
NextControl ==
    \/ \E f \in Files \cup {BadFile, EmptyFile} : CallLoadAudio("ctl", f)
    \/ \E b \in BOOLEAN : CallSetBypassMode("ctl", b)
    \/ \E ms \in SeekTimes : CallSeek("ctl", ms)
    \/ \E s_ms, e_ms \in RegionTimes : CallSetLoopRegion("ctl", s_ms, e_ms)
    \/ CallClearLoopRegion("ctl")
    \/ CallGetLoopRegion("ctl")
    \/ CallGetProcessedAudio("ctl")
    \/ LockThenGet("ctl")
    \/ SeekStore("ctl")
    \/ SetLoopRegionStore("ctl")
    \/ GetLoopRegionReturn("ctl")
    \/ ClearLoopRegion("ctl")
    \/ SetBypassMode("ctl")
    \/ InvalidateCache("ctl")
    \/ GetSteps("ctl")
    \/ LoadSteps("ctl")

SpecControl == Init /\ [][NextControl]_vars

\* The read calls with and without audio: the control thread loads (one
\* file that loads, two that fail), sets parameters, starts and stops the
\* stream, seeks, sets the loop region and reads; the stream's thread runs
\* the callback.  One call at a time.
ReadCalls(t) ==
    \/ \E f \in {1, BadFile, EmptyFile} : CallLoadAudio(t, f)
    \/ \E b \in BOOLEAN : CallSetBypassMode(t, b)
    \/ CallSetF0Ratio(t, 30)
    \/ CallStart(t)
    \/ CallStop(t)
    \/ CallPause(t)
    \/ CallResume(t)
    \/ \E ms \in {-1000, 400} : CallSeek(t, ms)
    \/ CallSetLoopRegion(t, 250, 750)
    \/ CallGetLoopRegion(t)
    \/ CallGetProcessedAudio(t)

ReadSteps(t) ==
    \/ CallbackFill(t)
    \/ Start(t)
    \/ StartFlag(t)
    \/ Stop(t)
    \/ StopReset(t)
    \/ Pause(t)
    \/ Resume(t)
    \/ LockThenGet(t)
    \/ SeekStore(t)
    \/ SetLoopRegionStore(t)
    \/ GetLoopRegionReturn(t)
    \/ SetBypassMode(t)
    \/ SetF0Ratio(t)
    \/ InvalidateCache(t)
    \/ GetSteps(t)
    \/ LoadSteps(t)

NextReads ==
    \/ Quiet /\ ReadCalls("ctl")
    \/ Quiet /\ CallAudioCallback("rt")
    \/ \E t \in Threads : ReadSteps(t)

SpecReads == Init /\ [][NextReads]_vars

----------------------------------------------------------------------------
(* Properties *)

\* the lock a thread must take to leave its current label
WaitsFor(t) ==
    CASE pc[t] \in SetterOps \cup {"process_locked"} -> "param"
      [] pc[t] \in {"invalidate", "get_processed_audio"} -> "cache"
      [] pc[t] \in {"seek", "set_loop_region", "get_loop_region", "clear_loop_region",
                    "set_loop_crossfade", "stop_reset"} -> "position"
      [] OTHER -> "nothing"

Holder(lock) ==
    CASE lock = "param" -> param_lock
      [] lock = "cache" -> cache_lock
      [] lock = "position" -> position_lock
      [] OTHER -> "free"

\* the call running on t is a parameter setter that returns in this step
SetterReturns(t) ==
    /\ arg[t].op \in SetterOps
    /\ pc[t] # "idle"
    /\ pc'[t] = "idle"

\* the nearest value of [0.5, 2.0], in tenths
Nearest(r) == IF r < RatioMin THEN RatioMin ELSE IF r > RatioMax THEN RatioMax ELSE r

\* C1: the parameter lock and the cache lock are only ever nested
\* parameter-then-cache, so a setter and get_processed_audio never wait for
\* each other: no thread holding the cache lock waits for the parameter lock
\* while the thread holding the parameter lock waits for the cache lock.
C1_NoLockOrderDeadlock ==
    \A t, u \in Threads :
        ~ /\ t # u
          /\ WaitsFor(t) = "cache" /\ Holder("cache") = u
          /\ WaitsFor(u) = "param" /\ Holder("param") = t

\* C2: when the callback has run past the end with looping off and called
\* stop() during playback, stop() completes: at its position reset the
\* position lock can be taken (it is not held by the very thread asking).
C2_StopInCallbackCompletes ==
    \A t \in Threads :
        (arg[t].op = "callback" /\ pc[t] = "stop_reset") => position_lock = "free"

\* C3: no fill callback ever raises.
C3_CallbackNeverRaises == \A t \in Threads : ret[t] # CallbackRaised

\* C4: whenever formant_link is true the three formant ratios are equal.
C4_LinkedRatiosEqual ==
    formant_link => \A f, g \in FormantNames : formant_ratios[f] = formant_ratios[g]

\* C5: a setter call that changes a stored parameter value (f0 ratio, a
\* formant ratio, the link flag or the bypass flag) leaves the cache invalid.
C5_ChangeInvalidates ==
    [][\A t \in Threads :
         (SetterReturns(t) /\ Params' # arg[t].pre) => ~cache_valid']_vars

\* C6: a setter call that changes no stored value leaves the validity flag
\* as it found it.
C6_NoChangeKeepsCache ==
    [][\A t \in Threads :
         (SetterReturns(t) /\ Params' = arg[t].pre)
            => cache_valid' = arg[t].prevalid]_vars

\* threads inside _process_audio
Recomputing == {t \in Threads : pc[t] \in {"process_audio", "process_locked",
                                          "process_sp", "process_synth"}}

C8_BypassReturnsOriginal ==
    [][\A t \in Threads :
         (/\ arg[t].op = "get_processed_audio"
          /\ pc[t] # "idle" /\ pc'[t] = "idle"
          /\ bypass_mode /\ loaded # 0)
         => /\ ret'[t].kind = "bypass"
            /\ ret'[t].n = FileLen(loaded)
            /\ \A k \in 1..FileLen(loaded) :
                 ret'[t].samples[k] = AsFloat32(FileSamples(loaded)[k])]_vars

\* C9: the f0 ratio and the three formant ratios are always within
\* [0.5, 2.0], and a setter given a value outside stores the nearest bound.
C9_RatiosClamped ==
    /\ [](/\ f0_ratio >= 5 /\ f0_ratio <= 20
          /\ \A f \in FormantNames : formant_ratios[f] >= 5 /\ formant_ratios[f] <= 20)
    /\ [][\A t \in Threads :
            /\ (pc[t] = "set_f0_ratio" /\ pc'[t] # "set_f0_ratio")
                 => f0_ratio' = Nearest(arg[t].ratio)
            /\ (pc[t] = "set_formant_ratio" /\ pc'[t] # "set_formant_ratio"
                /\ arg[t].formant \in FormantNames)
                 => formant_ratios'[arg[t].formant] = Nearest(arg[t].ratio)
            /\ (pc[t] = "set_parameters" /\ pc'[t] # "set_parameters"
                /\ "f0_ratio" \in DOMAIN arg[t].params)
                 => f0_ratio' = Nearest(arg[t].params.f0_ratio)
       ]_vars

\* 3.0 was given and 2.0 is stored, 0.1 was given earlier and 0.5 is stored
C9_Witness ==
    /\ pc["ctl"] = "invalidate"
    /\ arg["ctl"].op = "set_f0_ratio"
    /\ arg["ctl"].ratio = 30
    /\ f0_ratio = 20
    /\ formant_ratios["f2"] = 5

C11_LinkFrame ==
    [][\A t \in Threads :
         (SetterReturns(t) /\ arg[t].op = "set_formant_link")
         => /\ f0_ratio' = arg[t].pre.f0_ratio
            /\ formant_ratios'["f1"] = arg[t].pre.formant_ratios["f1"]
            /\ IF arg[t].linked
               THEN /\ formant_ratios'["f2"] = arg[t].pre.formant_ratios["f1"]
                    /\ formant_ratios'["f3"] = arg[t].pre.formant_ratios["f1"]
               ELSE formant_ratios' = arg[t].pre.formant_ratios]_vars

\* set_formant_link(True) has unified ratios that were 2.0, 0.5, 1.5
C11_Witness ==
    /\ pc["ctl"] = "invalidate"
    /\ arg["ctl"].op = "set_formant_link"
    /\ arg["ctl"].linked
    /\ arg["ctl"].pre.formant_ratios = [f1 |-> 20, f2 |-> 5, f3 |-> 15]
    /\ \A g \in FormantNames : formant_ratios[g] = 20

\* C12: a load_audio call that fails returns False (it never raises) and
\* leaves the audio, the F0 track, the envelope, the aperiodicity (hence the
\* duration) and the cache as they were when it was called.
C12_FailedLoadKeepsState ==
    [][\A t \in Threads :
         (arg[t].op = "load_audio" /\ pc[t] # "idle" /\ pc'[t] = "idle"
          /\ ret'[t] # True)
         => /\ ret'[t] = False
            /\ Loaded' = arg[t].before]_vars

\* the sample index of a time: ms milliseconds at the effective sample rate
\* processedLength / originalDuration (n samples for m original samples)
EffectiveIndex(ms, n, m) ==
    IF m > 0 THEN Trunc(ms * n * SampleRate, 1000 * m) ELSE Trunc(ms * SampleRate, 1000)

\* set_loop_region on thread t stores its result in this step
RegionStored(t) == pc[t] = "set_loop_region_store" /\ pc'[t] = "idle"

\* seek on thread t stores its result in this step
SeekStored(t) == pc[t] = "seek_store" /\ pc'[t] = "idle"

\* C14: with audio loaded, set_loop_region(s, e) with e > 0 stores bounds
\* with loop_start <= loop_end, both within [0, processed length].
C14_RegionOrdered ==
    [][\A t \in Threads :
         (RegionStored(t) /\ arg[t].audio.n > 0 /\ arg[t].end_ms > 0)
         => /\ loop_start' <= loop_end'
            /\ 0 <= loop_start' /\ loop_end' <= arg[t].audio.n]_vars

\* C15: with audio loaded, set_loop_region(s, e) with 0 < e < s (both sample
\* indices inside the audio) stores the region swapped: loop_start is the
\* sample index of e and loop_end the sample index of s.
C15_RegionSwapped ==
    [][\A t \in Threads :
         LET n == arg[t].audio.n
             m == FileLen(audio_data)
             si == EffectiveIndex(arg[t].start_ms, n, m)
             ei == EffectiveIndex(arg[t].end_ms, n, m)
         IN (/\ RegionStored(t) /\ n > 0
             /\ 0 < arg[t].end_ms /\ arg[t].end_ms < arg[t].start_ms
             /\ 0 < ei /\ ei < si /\ si <= n)
            => loop_start' = ei /\ loop_end' = si]_vars

\* C16: seek converts its time with the effective sample rate, as
\* set_loop_region does: the stored position is the effective sample index
\* of the time, clamped to [0, length - 1].
C16_SeekEffectiveRate ==
    [][\A t \in Threads :
         LET n == arg[t].audio.n
             m == FileLen(audio_data)
         IN (SeekStored(t) /\ n > 0)
            => play_position' = Max2(0, Min2(EffectiveIndex(arg[t].position_ms, n, m),
                                             n - 1))]_vars

\* C17: after seek, in any engine state, the stored position is never
\* negative and never exceeds the processed length minus one.
C17_SeekInRange ==
    [][\A t \in Threads :
         SeekStored(t)
         => /\ play_position' >= 0
            /\ arg[t].audio.n > 0 => play_position' <= arg[t].audio.n - 1]_vars

\* no load_audio has returned True and none is running
NoAudio == loaded = 0 /\ \A t \in Threads : arg[t].op # "load_audio"

\* the call running on t returns in this step
Returns(t) == pc[t] # "idle" /\ pc'[t] = "idle"

Playback == <<is_playing, stream, play_position, loop_enabled, loop_start,
              loop_end, loop_crossfade_ms, volume>>

\* C18: when the stream cannot be opened or started, start() returns
\* without raising and leaves is_playing false, the stream handle, the
\* position and the loop fields as they were.
C18_StartFailureReported ==
    [][\A t \in Threads :
         (pc[t] = "start" /\ ~is_playing /\ pc'[t] = "idle")
         => /\ ret'[t] # Raised
            /\ Playback' = Playback]_vars

\* C19: start() while is_playing is true and stop() while is_playing is
\* false return at once, open or close no stream and leave is_playing, the
\* position and every other playback field unchanged.
C19_StartStopNoOps ==
    [][\A t \in Threads :
         /\ (pc[t] = "start" /\ is_playing)
              => pc'[t] = "idle" /\ ret'[t] = None /\ Playback' = Playback
         /\ (pc[t] = "stop" /\ arg[t].op = "stop" /\ ~is_playing)
              => pc'[t] = "idle" /\ ret'[t] = None /\ Playback' = Playback
       ]_vars

\* start() has been called while the stream plays, away from position 0
C19_Witness ==
    /\ pc["ctl"] = "start"
    /\ is_playing
    /\ stream = "active"
    /\ play_position > 0

\* C20: start() that succeeds returns with is_playing true and the stream
\* open; stop() called while playing closes the stream (no handle remains),
\* sets is_playing false and resets the position to 0: its reset stores 0
\* and is never kept waiting for a lock the calling thread itself holds.
C20_StartThenStop ==
    /\ [][\A t \in Threads :
            /\ (pc[t] = "start_flag" /\ arg[t].op = "start" /\ pc'[t] = "idle")
                 => is_playing' /\ stream' = "active"
            /\ (pc[t] = "stop" /\ is_playing /\ pc'[t] # "stop")
                 => ~is_playing' /\ stream' = "none"
            /\ (pc[t] = "stop_reset" /\ pc'[t] # "stop_reset")
                 => play_position' = 0
       ]_vars
    /\ [](\A t \in Threads : pc[t] = "stop_reset" => position_lock # t)

\* the labels whose step may store the play position: the callback's fill,
\* the store of seek and the reset of stop
MovesPosition == {"callback_fill", "seek_store", "stop_reset"}

\* the labels of the calls that must leave the position alone
KeepsPosition == {"pause", "resume", "start_flag", "set_volume", "set_loop_region",
                  "set_loop_region_store", "clear_loop_region", "set_loop_crossfade"}

\* C21: the play position is changed only by the fill callback, by seek and
\* by the reset in stop; pause, resume, set_volume, set_loop,
\* set_loop_region, clear_loop_region and set_loop_crossfade leave it
\* unchanged, so resume continues from the position retained at pause.
C21_PositionFrame ==
    [][/\ play_position' # play_position
          => \E t \in Threads : pc[t] \in MovesPosition /\ pc'[t] # pc[t]
       /\ (\E t \in Threads : pc[t] \in KeepsPosition /\ pc'[t] # pc[t])
          => play_position' = play_position
       /\ loop_enabled' # loop_enabled => play_position' = play_position
      ]_vars

\* resume() has restarted the stream of a paused player whose position is
\* past the start, after the volume and the loop flag were set
C21_Witness ==
    /\ pc["ctl"] = "start_flag"
    /\ arg["ctl"].op = "resume"
    /\ play_position > 0
    /\ volume = 5
    /\ ~loop_enabled

\* C22: a parameter setter never waits for a lock that the fill callback
\* holds, in particular not while the callback is inside a recompute in
\* get_processed_audio.
C22_SetterNeverWaitsForCallback ==
    \A t, u \in Threads :
        ~ /\ arg[t].op \in SetterOps
          /\ arg[u].op = "callback"
          /\ WaitsFor(t) # "nothing"
          /\ Holder(WaitsFor(t)) = u

\* the labels inside _process_audio
Recompute == {"process_audio", "process_locked", "process_sp", "process_synth"}

\* C23: the position lock is never held while a synthesis recompute
\* executes: no thread is inside _process_audio while it holds the lock.
C23_PositionLockNotAcrossRecompute ==
    \A t \in Threads : pc[t] \in Recompute => position_lock # t

\* the nearest value of [lo, hi]
Clamped(x, lo, hi) == IF x < lo THEN lo ELSE IF x > hi THEN hi ELSE x

\* C24: the crossfade stays in [0, 500] ms and the volume in [0, 1]; each
\* is the last input clamped to its range: set_loop_crossfade and
\* set_volume store the clamped argument and nothing else changes them.
C24_Clamped ==
    [][/\ loop_crossfade_ms' \in 0..500
       /\ volume' \in 0..10
       /\ \A t \in Threads :
            /\ (pc[t] = "set_loop_crossfade" /\ pc'[t] = "idle")
                 => loop_crossfade_ms' = Clamped(arg[t].crossfade_ms, 0, 500)
            /\ (pc[t] = "set_volume" /\ pc'[t] = "idle")
                 => volume' = Clamped(arg[t].volume, 0, 10)
       /\ loop_crossfade_ms' # loop_crossfade_ms
            => \E t \in Threads : pc[t] = "set_loop_crossfade"
       /\ volume' # volume => \E t \in Threads : pc[t] = "set_volume"
      ]_vars

\* set_loop_crossfade(600) and set_volume(-0.5) have stored 500 and 0
C24_Witness ==
    /\ loop_crossfade_ms = 500
    /\ volume = 0

\* C25: set_parameters changes only the fields present in the dict, each
\* ratio clamped to [0.5, 2.0]: an absent f0_ratio, absent formant names and
\* an absent formant_link keep their values, unknown formant names and
\* extra keys are ignored, bypass is never changed; called with the dict
\* get_parameters returned it leaves every stored parameter unchanged.
C25_PartialUpdate ==
    [][\A t \in Threads :
         LET p == arg[t].params
             has(k) == k \in DOMAIN p
             named(g) == has("formant_ratios") /\ g \in DOMAIN p.formant_ratios
         IN /\ (pc[t] = "set_parameters" /\ pc'[t] # "set_parameters")
                 => /\ f0_ratio' = IF has("f0_ratio") THEN Nearest(p.f0_ratio) ELSE f0_ratio
                    /\ DOMAIN formant_ratios' = FormantNames
                    /\ \A g \in FormantNames :
                         formant_ratios'[g] = IF named(g) THEN Nearest(p.formant_ratios[g])
                                              ELSE formant_ratios[g]
                    /\ formant_link' = IF has("formant_link") THEN p.formant_link
                                       ELSE formant_link
                    /\ bypass_mode' = bypass_mode
            /\ (arg[t].op = "set_parameters" /\ pc[t] = "invalidate")
                 => Params' = Params
            /\ (/\ arg[t].op = "set_parameters" /\ SetterReturns(t)
                /\ p = [f0_ratio |-> arg[t].pre.f0_ratio,
                        formant_ratios |-> arg[t].pre.formant_ratios,
                        formant_link |-> arg[t].pre.formant_link])
                 => Params' = arg[t].pre
      ]_vars

\* set_parameters, given a dict naming f1 and the unknown f4 and nothing
\* else, has stored while f2 was away from 1.0, the link off and bypass on
C25_Witness ==
    /\ pc["ctl"] = "invalidate"
    /\ arg["ctl"].op = "set_parameters"
    /\ DOMAIN arg["ctl"].params = {"formant_ratios"}
    /\ "f4" \in DOMAIN arg["ctl"].params.formant_ratios
    /\ formant_ratios["f2"] # RatioOne
    /\ formant_ratios["f2"] # formant_ratios["f1"]
    /\ ~formant_link
    /\ bypass_mode

\* C26: the recorder follows IDLE -> RECORDING <-> PAUSED -> IDLE.
\* start_recording from IDLE (its directory made) ends RECORDING with the
\* output path when the stream opened, and IDLE with None when it did not;
\* in RECORDING it changes nothing and returns None; in PAUSED it resumes to
\* RECORDING with the same stream and returns None.  pause_recording
\* returns True from RECORDING, moving to PAUSED, and False otherwise with
\* the state unchanged.  stop_recording from RECORDING or PAUSED closes the
\* stream and ends IDLE; from IDLE it returns None and changes nothing.
C26_StateMachine ==
    LET r == recorder_ret
        unchanged == recorder_state = r.before.state /\ recorder_stream = r.before.stream
    IN /\ recorder_state \in {"idle", "recording", "paused"}
       /\ r.op = "start_recording" =>
            CASE r.before.state = "recording" -> r.result = None /\ unchanged
              [] r.before.state = "paused" ->
                   /\ r.result = None
                   /\ recorder_state = "recording"
                   /\ recorder_stream = r.before.stream
              [] r.before.state = "idle" /\ r.result # Raised ->
                   IF recorder_stream = "active"
                   THEN recorder_state = "recording" /\ r.result = OutputFile
                   ELSE recorder_state = "idle" /\ r.result = None
              [] OTHER -> recorder_state = "idle"
       /\ r.op = "pause_recording" =>
            IF r.before.state = "recording"
            THEN r.result = True /\ recorder_state = "paused"
            ELSE r.result = False /\ unchanged
       /\ r.op = "stop_recording" =>
            IF r.before.state = "idle"
            THEN r.result = None /\ unchanged
            ELSE recorder_state = "idle" /\ recorder_stream = "none"

\* start_recording has resumed a paused recording that holds a block
C26_Witness ==
    /\ recorder_ret.op = "start_recording"
    /\ recorder_ret.before.state = "paused"
    /\ recorder_state = "recording"
    /\ recorder_stream = "active"
    /\ Len(recording_data) > 0

\* the operations of the settings manager that take a slot index
IndexedOps == {"save_to_slot", "load_from_slot", "clear_slot", "get_slot_info",
               "set_current_slot", "rename_slot"}

\* C27: every SettingsManager operation given an index outside 0..3 returns
\* its failure value (None for load_from_slot and get_slot_info, False for
\* the others) and leaves the four slots and the current index unchanged.
C27_OutOfRange ==
    LET r == settings_ret
    IN (r.op \in IndexedOps /\ r.index \notin 0..3)
       => /\ r.result = IF r.op \in {"load_from_slot", "get_slot_info"} THEN None ELSE False
          /\ slots = r.before.slots
          /\ current_slot_index = r.before.current_slot_index

\* rename_slot(-1, ...) has been called on a manager whose last slot is
\* saved and whose current slot is 2
C27_Witness ==
    /\ settings_ret.op = "rename_slot"
    /\ settings_ret.index = -1
    /\ ~slots[3].is_empty
    /\ current_slot_index = 2

\* C28: for a valid index load_from_slot returns None while the slot is
\* empty (initially and after clear_slot) and after save_to_slot exactly the
\* values last saved to that slot; saving or clearing one slot changes no
\* other slot (and no other operation changes what a slot loads); the
\* values and the current index survive to_dict / from_dict into a new
\* manager.
C28_SlotsKeepValues ==
    LET r == settings_ret
        others == \A j \in 0..3 : j # r.index => slots[j] = r.before.slots[j]
        same == \A j \in 0..3 : load_from_slot(slots, j) = load_from_slot(r.before.slots, j)
    IN /\ r.op = "none" => \A j \in 0..3 : load_from_slot(slots, j) = None
       /\ (r.op = "save_to_slot" /\ r.index \in 0..3)
            => /\ r.result = True
               /\ load_from_slot(slots, r.index) = r.values
               /\ others
       /\ (r.op = "clear_slot" /\ r.index \in 0..3)
            => /\ r.result = True
               /\ load_from_slot(slots, r.index) = None
               /\ others
       /\ (r.op = "load_from_slot" /\ r.index \in 0..3)
            => /\ r.result = (IF slots[r.index].is_empty THEN None
                              ELSE [f0_ratio |-> slots[r.index].f0_ratio,
                                    formant_ratios |-> slots[r.index].formant_ratios,
                                    formant_link |-> slots[r.index].formant_link])
               /\ same
       /\ r.op \in {"get_slot_info", "set_current_slot", "rename_slot"} => same
       /\ r.op = "from_dict"
            => /\ same
               /\ current_slot_index = r.before.current_slot_index

\* a manager with a saved slot, a cleared slot and the current slot moved
\* has been written out and read into a new manager
C28_Witness ==
    /\ settings_ret.op = "from_dict"
    /\ ~slots[1].is_empty
    /\ slots[1].formant_ratios["f1"] = 30
    /\ slots[2].is_empty
    /\ slots[2].name = "A"
    /\ current_slot_index = 3

\* the preset names in the order of Python's sorted(): "A b" < "Z" < "a_b" < "x/y"
NameOrder == <<(<<65, 32, 98>>), (<<90>>), (<<97, 95, 98>>), (<<120, 47, 121>>)>>
PlaceOf(name) == CHOOSE k \in DOMAIN NameOrder : NameOrder[k] = name

\* C29: list_presets returns exactly the names saved and not deleted, in
\* sorted order; get_preset returns the preset last saved under the name
\* and None for a name not present; deleting an absent name returns False
\* and changes nothing.  Step by step: no name is present at first; a
\* save that succeeds puts its preset under its name and leaves the other
\* names alone, one that fails changes nothing; a delete of a present name
\* that succeeds removes that name only; reads change nothing.
C29_PresetCache ==
    LET r == presets_ret
        was == r.before.user_presets
        others(name) ==
            \A n \in PresetNames \ {name} :
                /\ n \in DOMAIN user_presets <=> n \in DOMAIN was
                /\ n \in DOMAIN was => user_presets[n] = was[n]
        l == list_presets
    IN /\ {l[k] : k \in DOMAIN l} = DOMAIN user_presets
       /\ \A j, k \in DOMAIN l : j < k => PlaceOf(l[j]) < PlaceOf(l[k])
       /\ r.op = "none" => DOMAIN user_presets = {}
       /\ r.op = "save_preset" =>
            IF r.result = True
            THEN get_preset(r.preset.name) = r.preset /\ others(r.preset.name)
            ELSE r.result = False /\ user_presets = was
       /\ r.op = "delete_preset" =>
            IF r.name \notin DOMAIN was
            THEN /\ r.result = False
                 /\ user_presets = was
                 /\ preset_files = r.before.preset_files
            ELSE IF r.result = True
            THEN get_preset(r.name) = None /\ others(r.name)
            ELSE user_presets = was
       /\ r.op = "get_preset" =>
            /\ r.result = (IF r.name \in DOMAIN was THEN was[r.name] ELSE None)
            /\ user_presets = was
       /\ r.op = "list_presets" => r.result = l /\ user_presets = was

\* "A b" has been deleted while "a_b" and "Z" stay, "a_b" saved twice
C29_Witness ==
    /\ presets_ret.op = "delete_preset"
    /\ presets_ret.name = <<65, 32, 98>>
    /\ presets_ret.result = True
    /\ list_presets = <<(<<90>>), (<<97, 95, 98>>)>>
    /\ user_presets[<<97, 95, 98>>].f0_ratio = 15

\* the entries of l other than x, in their order
Others(l, x) == SelectSeq(l, LAMBDA y : y # x)

\* C30: the recent files hold no duplicates, are ordered most recently
\* added first and are at most max_recent_files: after add_recent_file(p)
\* the list is p followed by the earlier entries other than p in their
\* earlier order, cut after max_recent_files entries (the oldest dropped).
C30_RecentFiles ==
    /\ \A j, k \in 1..Len(recent_files) : j # k => recent_files[j] # recent_files[k]
    /\ Len(recent_files) <= max_recent_files
    /\ config_ret.op = "add_recent_file" =>
         LET expected == <<config_ret.file_path>> \o Others(config_ret.before, config_ret.file_path)
         IN /\ Len(recent_files) = IF Len(expected) > max_recent_files
                                   THEN max_recent_files ELSE Len(expected)
            /\ \A k \in 1..Len(recent_files) : recent_files[k] = expected[k]

\* a path at the end of a full list has been added again and is in front
C30_Witness ==
    /\ config_ret.op = "add_recent_file"
    /\ Len(config_ret.before) = max_recent_files
    /\ config_ret.before[max_recent_files] = config_ret.file_path
    /\ recent_files[1] = config_ret.file_path
    /\ Len(recent_files) = max_recent_files

\* C37: the audio stop_recording writes is the concatenation, in arrival
\* order, of the gain-scaled blocks handed to the callback while the state
\* was RECORDING, each exactly once, and of no other block.
C37_WrittenOnce ==
    (recorder_ret.op = "stop_recording" /\ recorder_ret.result = OutputFile)
    => recorder_ret.written = [k \in 1..Len(captured) |-> captured[k] * Gain]

\* C38: the recorder holds an input stream exactly when its state is
\* RECORDING or PAUSED; in state IDLE the stream handle is None.
C38_StreamIffActive ==
    recorder_state = "idle" <=> recorder_stream = "none"

\* C39: the presets in memory and the preset directory stay consistent: a
\* new PresetManager loading the directory has exactly the names and
\* values of the manager that made the calls.
C39_DirectoryConsistent ==
    /\ DOMAIN load_presets(preset_files) = DOMAIN user_presets
    /\ \A name \in DOMAIN user_presets : load_presets(preset_files)[name] = user_presets[name]

\* C36: at most one output stream is open at any time and none is leaked:
\* start() opens a stream only when no opened stream is held, and when a
\* stop() call returns no opened stream is held.
C36_NoStreamLeak ==
    [][\A t \in Threads :
         /\ (pc[t] = "start" /\ pc'[t] = "start_flag") => stream = "none"
         /\ (arg[t].op = "stop" /\ pc[t] \in {"stop", "stop_reset"} /\ pc'[t] = "idle")
              => stream' = "none"
      ]_vars

\* C34: a buffer synthesized while a load runs concurrently is built from one
\* load only: the F0 track, the spectral envelope and the aperiodicity it was
\* synthesized from belong to the same file
C34_OneLoadPerSynthesis ==
    \A buf \in returned :
        buf.kind = "synth" => (buf.f0 = buf.sp /\ buf.sp = buf.ap)

\* C35: at every fill callback on non-empty audio the effective loop region
\* lies inside the audio being played: 0 <= effectiveStart < effectiveEnd <=
\* len(audio), whatever set_loop_region, reloads and bypass toggles came before
C35_LoopBoundsValid ==
    \A t \in Threads :
        (pc[t] = "callback_fill" /\ arg[t].audio.n > 0)
        => LET n == arg[t].audio.n
               le == EffectiveEnd(loop_end, n)
               ls == EffectiveStart(loop_start, loop_end, n)
           IN 0 <= ls /\ ls < le /\ le <= n

\* the step in which thread t runs the body of the fill callback
Fills(t) == pc[t] = "callback_fill" /\ pc'[t] # "callback_fill"

\* C32: with looping enabled, a fill callback that finds the position within
\* [effectiveStart, effectiveEnd] leaves it within [effectiveStart,
\* effectiveEnd], the bounds being those of the audio and loop region the
\* callback works on
C32_StaysInRegion ==
    [][\A t \in Threads :
         LET n == arg[t].audio.n
             le == EffectiveEnd(loop_end, n)
             ls == EffectiveStart(loop_start, loop_end, n)
         IN (Fills(t) /\ loop_enabled /\ ls <= play_position /\ play_position <= le)
            => (ls <= play_position' /\ play_position' <= le)
      ]_vars

\* a callback has wrapped (a sample of the loop start follows a later sample
\* in the block) and left the position inside the region
C32_Witness ==
    /\ loop_enabled
    /\ ret["rt"] = None
    /\ EffectiveStart(loop_start, loop_end, processed.n) <= play_position
    /\ play_position <= EffectiveEnd(loop_end, processed.n)
    /\ Len(outdata) = BlockSize
    /\ \E j \in 1..(BlockSize - 1) :
         /\ outdata[j].kind = "sample"
         /\ outdata[j + 1].kind = "sample"
         /\ outdata[j + 1].i < outdata[j].i

\* C31: a fill callback on non-empty audio that finds looping enabled, the position within
\* [effectiveStart, effectiveEnd] and fewer than a block of samples before
\* effectiveEnd completes the block with the samples from effectiveStart on,
\* wrapping every loopLength samples, and leaves the position at
\* effectiveStart + ((blockSize - available) mod loopLength)
C31_WrapFill ==
    [][\A t \in Threads :
         LET n == arg[t].audio.n
             le == EffectiveEnd(loop_end, n)
             ls == EffectiveStart(loop_start, loop_end, n)
             avail == le - play_position
             loop_length == le - ls
         IN (/\ Fills(t)
             /\ n > 0
             /\ loop_enabled
             /\ ls <= play_position
             /\ play_position <= le
             /\ avail < BlockSize)
            => /\ ret'[t] # CallbackRaised
               /\ Len(outdata') = BlockSize
               /\ \A j \in (avail + 1)..BlockSize :
                    outdata'[j] = [kind |-> "sample",
                                   i |-> ls + ((j - 1 - avail) % loop_length),
                                   v |-> volume]
               /\ play_position' = ls + ((BlockSize - avail) % loop_length)
      ]_vars

\* C33: a fill callback that finds looping enabled, the position before the
\* loop region (and inside the audio, the region inside the audio) and fewer
\* than a block of samples before the end of the audio fills the remainder of
\* the block with the samples from effectiveStart on, scaled by the volume,
\* and leaves the position at effectiveStart plus the length of the
\* remainder, a valid index of the audio
C33_RemainderFromLoopStart ==
    [][\A t \in Threads :
         LET n == arg[t].audio.n
             le == EffectiveEnd(loop_end, n)
             ls == EffectiveStart(loop_start, loop_end, n)
             avail == n - play_position
             remaining == BlockSize - avail
         IN (/\ Fills(t)
             /\ n > 0
             /\ le <= n
             /\ loop_enabled
             /\ 0 <= play_position
             /\ play_position < ls
             /\ avail < BlockSize)
            => /\ ret'[t] # CallbackRaised
               /\ Len(outdata') = BlockSize
               /\ \A j \in (avail + 1)..BlockSize :
                    outdata'[j] = [kind |-> "sample", i |-> ls + (j - 1 - avail),
                                   v |-> volume]
               /\ play_position' = ls + remaining
               /\ 0 <= play_position'
               /\ play_position' < n
      ]_vars

=============================================================================
